---- MODULE Spec2Model ----
(***************************************************************************)
(* A state-machine model of ffmpeg-cnvt.py: argument parsing, the option   *)
(* validator (check_valid_arguments), the batch loop of process_input, the *)
(* stream mapping compiler (stream_map / stream_map_args) and the command  *)
(* assembler.                                                              *)
(*                                                                         *)
(* Python values are encoded as follows.                                   *)
(*   - an argparse "append" list is a sequence; an entry of a nargs=2      *)
(*     option is the pair <<type, value>>, an entry of a choices option is *)
(*     the 1-tuple <<type>> (a one-character Python string, whose [0] is   *)
(*     itself);                                                            *)
(*   - an optional value (None or v) is the sequence <<>> or <<v>>;        *)
(*   - an unset string option is "", an unset int option is 0 (None, ""    *)
(*     and 0 are all falsy, and the code only tests truthiness);           *)
(*   - a command-line token is a tuple <<format, arg, ...>>: the format    *)
(*     string of the code's "...".format(...) and its arguments, or a      *)
(*     1-tuple <<text>> for a literal token;                               *)
(*   - a function that may raise returns [err |-> BOOLEAN, val |-> ...].   *)
(***************************************************************************)
EXTENDS Integers, Sequences, FiniteSets, TLC

\* ------------------------------------------------------------------------
\* Program constants
\* ------------------------------------------------------------------------

AUDIO_CODECS == {"aac", "ac3", "eac3", "dts", "flac", "opus", "mp3", "wav"}
VIDEO_PRESET_ARGS == {"h264", "h265", "h264nv", "h265nv"}
VIDEO_CRF_ARGS == {"h264", "h265", "vp8", "vp9"}
VIDEO_CODECS == VIDEO_PRESET_ARGS \cup VIDEO_CRF_ARGS
SUBTITLE_CODECS == {"ssa", "ass", "dvbsub", "dvdsub", "srt", "sub"}
RES_ARGS == <<"hd", "fhd", "qhd", "uhd">>
DEPTH_ARGS == <<"8bit", "10bit">>
COLOR_ARGS == <<"sdr", "hdr">>
LENGTH_ARGS == <<"shortest", "duration">>
CHANNELS_ARGS == <<"mono", "stereo">>
STREAM_TYPES_SHORT == <<"v", "a", "s", "t", "d">>
STREAM_TYPES_LONG == <<"video", "audio", "subtitle", "attachment", "data">>
ATTACHTYPE_DEFAULT == "application/octet-stream"

\* errno values returned by main, and the status argparse exits with
ENOENT == 2
EFAULT == 14
EINVAL == 22
ARGPARSE_ERROR == 2

Range(s) == {s[i] : i \in 1..Len(s)}

StreamTypes == Range(STREAM_TYPES_SHORT)

STREAM_TYPES_DICT == [t \in StreamTypes |->
    STREAM_TYPES_LONG[CHOOSE i \in 1..Len(STREAM_TYPES_SHORT) : STREAM_TYPES_SHORT[i] = t]]

\* ------------------------------------------------------------------------
\* The argparse namespace
\* ------------------------------------------------------------------------

\* The destinations create_argparser defines, by the kind of value they hold.
ListArgs == {"codec", "bitrate", "lang", "nocopy", "singlestream", "convertonly",
             "addfile", "addcodec", "addstream", "addfirst", "adddefault",
             "addlang", "addlooped"}
BoolArgs == {"mono", "stereo", "deshake", "8bit", "10bit", "sdr", "hdr", "hd", "fhd",
             "qhd", "uhd", "sequence", "nounknown", "shortest", "stoponerror",
             "dryrun", "overwrite", "suffix"}
StrArgs == {"preset", "tune", "tier", "crop", "framerate", "addattach", "attachtype",
            "duration", "container", "ffmpegbin"}
IntArgs == {"crf", "width", "height", "padding"}

\* parse_args with no option given: every default of create_argparser.
DefaultArgs ==
    [n \in ListArgs \cup BoolArgs \cup StrArgs \cup IntArgs |->
        CASE n \in ListArgs -> <<>>
          [] n \in BoolArgs -> FALSE
          [] n = "padding" -> 4
          [] n \in IntArgs -> 0
          [] n = "framerate" -> "30000/1001"
          [] n = "attachtype" -> ATTACHTYPE_DEFAULT
          [] n = "ffmpegbin" -> "ffmpeg"
          [] OTHER -> ""]

\* bool(getattr(args, name))
truthy(args, name) ==
    CASE name \in ListArgs -> Len(args[name]) > 0
      [] name \in BoolArgs -> args[name]
      [] name \in IntArgs -> args[name] # 0
      [] OTHER -> args[name] # ""

\* ------------------------------------------------------------------------
\* Argument parsing (argparse type callbacks and exclusive groups)
\* ------------------------------------------------------------------------

\* One call of ValidateStreamCodecArg with the function attribute lasttype
\* (<<>> is None). The assignment after a codec was checked goes to the
\* attribute "lastype", so lasttype keeps its value.
ValidateStreamCodecArg(lasttype, value) ==
    IF lasttype = <<>>
    THEN IF value \notin StreamTypes
         THEN [err |-> TRUE, lasttype |-> lasttype]
         ELSE [err |-> FALSE, lasttype |-> <<value>>]
    ELSE CASE lasttype[1] = "v" -> [err |-> value \notin VIDEO_CODECS, lasttype |-> lasttype]
           [] lasttype[1] = "a" -> [err |-> value \notin AUDIO_CODECS, lasttype |-> lasttype]
           [] lasttype[1] = "s" -> [err |-> value \notin SUBTITLE_CODECS, lasttype |-> lasttype]
           [] OTHER -> [err |-> TRUE, lasttype |-> lasttype]

\* argparse applies the type callback to the argument strings in command-line
\* order: TRUE iff some call raises.
RECURSIVE CodecArgsRejected(_, _)
CodecArgsRejected(lasttype, values) ==
    IF values = <<>> THEN FALSE
    ELSE LET r == ValidateStreamCodecArg(lasttype, Head(values))
         IN r.err \/ CodecArgsRejected(r.lasttype, Tail(values))

RECURSIVE Flatten(_)
Flatten(pairs) ==
    IF pairs = <<>> THEN <<>> ELSE Head(pairs) \o Flatten(Tail(pairs))

\* The groups made with add_mutually_exclusive_group.
ExclusiveGroups == {{"mono", "stereo"}, {"8bit", "10bit"}, {"sdr", "hdr"},
                    {"hd", "fhd", "qhd", "uhd"}, {"shortest", "duration"}}

\* A parser without mutually exclusive groups: only the codec type callback
\* can reject.
ParserRejects_codecs_only(a) ==
    CodecArgsRejected(<<>>, Flatten(a.codec) \o Flatten(a.addcodec))

\* parser.parse_args calls parser.error (exit status 2) iff this holds.
ParserRejects(a) ==
    \/ \E g \in ExclusiveGroups : Cardinality({n \in g : truthy(a, n)}) > 1
    \/ CodecArgsRejected(<<>>, Flatten(a.codec) \o Flatten(a.addcodec))

\* ------------------------------------------------------------------------
\* Option validator
\* ------------------------------------------------------------------------

\* arg_stream_type_enumeration: the second test of the "or" is type(bool),
\* always true, so every non-empty list yields the first items of its entries.
arg_stream_type_enumeration(arg) == {arg[i][1] : i \in 1..Len(arg)}

\* Each check_* operator is TRUE iff the function raises.
check_exclusive_args(args, arg_names) ==
    Cardinality({i \in 1..Len(arg_names) : truthy(args, arg_names[i])}) > 1

check_dependent_args(args, arg_names, requires_names) ==
    \E i \in 1..Len(arg_names) :
        /\ truthy(args, arg_names[i])
        /\ ~ \E j \in 1..Len(requires_names) : truthy(args, requires_names[j])

\* A dependency check blind to the stream type: any entry of a required
\* option satisfies every entry of the dependent option.
check_arg_stream_dependencies_any_type(args, value_names, depend_arg_names) ==
    \E i \in 1..Len(value_names) :
        /\ Len(args[value_names[i]]) > 0
        /\ ~ \E j \in 1..Len(depend_arg_names) : Len(args[depend_arg_names[j]]) > 0

check_arg_stream_dependencies(args, value_names, depend_arg_names) ==
    \E i \in 1..Len(value_names) :
        \E key \in arg_stream_type_enumeration(args[value_names[i]]) :
            ~ \E j \in 1..Len(depend_arg_names) :
                key \in arg_stream_type_enumeration(args[depend_arg_names[j]])

\* An exclusivity check blind to the stream type: two of the options may not
\* be set at all, whatever their types.
check_arg_stream_exclusive_any_type(args, value_names) ==
    Cardinality({j \in 1..Len(value_names) : Len(args[value_names[j]]) > 0}) > 1

check_arg_stream_exclusive(args, value_names) ==
    \E i \in 1..Len(value_names) :
        \E key \in arg_stream_type_enumeration(args[value_names[i]]) :
            Cardinality({j \in 1..Len(value_names) :
                key \in arg_stream_type_enumeration(args[value_names[j]])}) > 1

check_arg_stream_names_dependencies(args, value_names, depend_arg_names, stream_spec) ==
    \E i \in 1..Len(value_names) :
        /\ truthy(args, value_names[i])
        /\ Len(depend_arg_names) > 0
        /\ ~ \E j \in 1..Len(depend_arg_names) :
               stream_spec \in arg_stream_type_enumeration(args[depend_arg_names[j]])

check_arg_stream_names_exclusive(args, value_names, stream_arg_names, stream_spec) ==
    \E i \in 1..Len(value_names) :
        /\ truthy(args, value_names[i])
        /\ \E j \in 1..Len(stream_arg_names) :
               stream_spec \in arg_stream_type_enumeration(args[stream_arg_names[j]])

\* The rules of check_valid_arguments in the order they run; rule k is TRUE
\* iff the k-th call raises.
ValidationRules(args) ==
    << check_arg_stream_dependencies(args, <<"bitrate">>, <<"codec", "addcodec">>),
       check_arg_stream_dependencies(args,
           <<"addcodec", "addstream", "addfirst", "adddefault", "addlang", "addlooped">>,
           <<"addfile">>),
       check_arg_stream_dependencies(args, <<"addlooped">>, <<"addcodec">>),
       check_arg_stream_names_dependencies(args,
           <<"tune", "crf", "crop">> \o DEPTH_ARGS \o COLOR_ARGS \o RES_ARGS,
           <<"codec", "addcodec">>, "v"),
       check_arg_stream_names_dependencies(args, CHANNELS_ARGS, <<"codec", "addcodec">>, "a"),
       check_dependent_args(args, <<"crop">>, RES_ARGS \o <<"width", "height">>),
       check_dependent_args(args, <<"addlooped">>, LENGTH_ARGS),
       check_arg_stream_exclusive(args, <<"nocopy", "codec">>),
       check_arg_stream_names_exclusive(args, RES_ARGS, <<"nocopy">>, "v"),
       check_exclusive_args(args, RES_ARGS \o <<"width">>),
       check_exclusive_args(args, RES_ARGS \o <<"height">>) >>

\* check_valid_arguments raises iff some rule does.
check_valid_arguments(args) ==
    LET rules == ValidationRules(args)
    IN \E k \in 1..Len(rules) : rules[k]

\* ------------------------------------------------------------------------
\* Stream-typed option lookups
\* ------------------------------------------------------------------------

\* stream_type_arg: the value of the first pair whose type is stream_type,
\* <<>> for None.
stream_type_arg(arg, stream_type) ==
    LET hits == {i \in 1..Len(arg) : arg[i][1] = stream_type}
    IN IF hits = {} THEN <<>>
       ELSE <<arg[CHOOSE i \in hits : \A j \in hits : i <= j][2]>>

\* stream_type_bool: "stream_type in args", list membership by equality. An
\* entry of a nargs=2 option is a pair and never equals a type string.
stream_type_bool(arg, stream_type) ==
    \E i \in 1..Len(arg) : arg[i] = <<stream_type>>

\* ------------------------------------------------------------------------
\* Encoder argument lists
\* ------------------------------------------------------------------------

Raise == [err |-> TRUE, val |-> <<>>]
Return(v) == [err |-> FALSE, val |-> v]

video_codec_name(codec) ==
    CASE codec = "h264" -> "libx264"
      [] codec = "h265" -> "libx265"
      [] codec = "h264nv" -> "h264_nvenc"
      [] codec = "h265nv" -> "hevc_nvenc"
      [] codec = "vp8" -> "libvpx"
      [] codec = "vp9" -> "libvpx-vp9"
      [] OTHER -> codec

HDR_X265_PARAMS == "keyint=60:bframes=3:...:max-cli=0,0"

\* video_codec_to_encoder. Reading args.vbitrate raises AttributeError when
\* the namespace has no such attribute.
video_codec_to_encoder(codec, args) ==
    IF codec = <<>> THEN Return(<< <<"copy">> >>)
    ELSE IF codec[1] \notin VIDEO_CODECS THEN Raise
    ELSE IF "vbitrate" \notin DOMAIN args THEN Raise
    ELSE Return(
        << <<video_codec_name(codec[1])>> >>
        \o (IF args.preset # "" /\ codec[1] \in VIDEO_PRESET_ARGS
            THEN << <<"-preset">>, <<args.preset>> >> ELSE <<>>)
        \o (IF args.crf # 0 /\ codec[1] \in VIDEO_CRF_ARGS
            THEN << <<"-crf">>, <<"{}", args.crf>> >> ELSE <<>>)
        \o (IF args.tune # "" THEN << <<"-tune">>, <<args.tune>> >> ELSE <<>>)
        \o (IF args.tier = "main" THEN << <<"-no-high-tier">> >>
            ELSE IF args.tier = "high" THEN << <<"-high-tier">> >> ELSE <<>>)
        \o (IF args["vbitrate"] # "" THEN << <<"-b:v">>, <<args["vbitrate"]>> >> ELSE <<>>)
        \o (IF args["8bit"] THEN << <<"-pix_fmt">>, <<"yuv420p">> >>
            ELSE IF args["10bit"] THEN << <<"-pix_fmt">>, <<"yuv420p10le">> >> ELSE <<>>)
        \o (IF args.sdr
            THEN << <<"-colorspace:v">>, <<"bt709">>, <<"-color_primaries:v">>, <<"bt709">>,
                    <<"-color_trc:v">>, <<"bt709">>, <<"-color_range:v">>, <<"tv">> >>
            ELSE IF args.hdr THEN << <<"-x265-params">>, <<HDR_X265_PARAMS>> >> ELSE <<>>))

audio_codec_to_encoder(codec, args) ==
    IF codec = <<>> THEN Return(<< <<"copy">> >>)
    ELSE IF codec[1] \notin AUDIO_CODECS THEN Raise
    ELSE Return(
        (CASE codec[1] = "opus" -> << <<"opus">>, <<"-strict">>, <<"-2">> >>
           [] codec[1] = "dts" -> << <<"dca">> >>
           [] codec[1] = "mp3" -> << <<"libmp3lame">> >>
           [] codec[1] = "wav" -> << <<"wavpack">> >>
           [] OTHER -> << <<codec[1]>> >>)
        \o (IF args.stereo THEN << <<"-ac">>, <<"2">> >>
            ELSE IF args.mono THEN << <<"-ac">>, <<"1">> >> ELSE <<>>))

subtitle_codec_to_encoder(codec, args) ==
    IF codec = <<>> THEN Return(<< <<"copy">> >>)
    ELSE IF codec[1] \notin SUBTITLE_CODECS THEN Raise
    ELSE Return(IF codec[1] = "sub" THEN << <<"subrip">> >> ELSE << <<codec[1]>> >>)

stream_codec_to_encoder(stream_type, codec, args) ==
    LET r == CASE stream_type = "v" -> video_codec_to_encoder(codec, args)
               [] stream_type = "a" -> audio_codec_to_encoder(codec, args)
               [] stream_type = "s" -> subtitle_codec_to_encoder(codec, args)
               [] OTHER -> Return(<<>>)
    IN IF r.err THEN Raise
       ELSE Return(r.val \o
                (IF stream_type_bool(args.bitrate, stream_type)
                 THEN << <<"-b:{}", stream_type>> >>
                      \o stream_type_arg(args.bitrate, stream_type)
                 ELSE <<>>))

\* ------------------------------------------------------------------------
\* Stream mapping
\* ------------------------------------------------------------------------

\* Per-stream tokens numbered from 0 within the group, not from first_stream.
stream_tokens_from_zero(spec, first_stream, n, codec_args, metadata, default_stream) ==
    << <<"-c:{}:{}", spec, n>> >> \o codec_args[n + 1]
    \o (IF default_stream # <<>>
        THEN << <<"-disposition:{}:{}", spec, n>>,
                IF default_stream[1] /\ n = 0 THEN <<"default">> ELSE <<"none">> >>
        ELSE <<>>)
    \o (IF metadata # <<>>
        THEN << <<"-metadata:s:{}:{}", spec, n>>, metadata[1] >>
        ELSE <<>>)

\* The tokens stream_map_args emits for output stream first_stream + n: the
\* codec assignment, the disposition (default_stream is <<>> for None; only
\* the first stream of a group that starts "default" is marked default) and
\* the language metadata.
stream_tokens(spec, first_stream, n, codec_args, metadata, default_stream) ==
    << <<"-c:{}:{}", spec, first_stream + n>> >> \o codec_args[n + 1]
    \o (IF default_stream # <<>>
        THEN << <<"-disposition:{}:{}", spec, first_stream + n>>,
                IF default_stream[1] /\ n = 0 THEN <<"default">> ELSE <<"none">> >>
        ELSE <<>>)
    \o (IF metadata # <<>>
        THEN << <<"-metadata:s:{}:{}", spec, first_stream + n>>, metadata[1] >>
        ELSE <<>>)

RECURSIVE streams_tokens(_, _, _, _, _, _, _)
streams_tokens(spec, first_stream, n, stream_count, codec_args, metadata, default_stream) ==
    IF n >= stream_count THEN <<>>
    ELSE stream_tokens(spec, first_stream, n, codec_args, metadata, default_stream)
         \o streams_tokens(spec, first_stream, n + 1, stream_count, codec_args,
                           metadata, default_stream)

\* stream_map_args: the -map token of one group and its per-stream tokens.
stream_map_args(spec, file_index, none, stream_num, first_stream, stream_count, codec_args, metadata, default_stream) ==
    << <<"-map">> >> \o
    (IF none THEN << <<"-{}:{}?", file_index, spec>> >>
     ELSE (IF stream_num # <<>>
           THEN << <<"{}:{}:{}", file_index, spec, stream_num[1]>> >>
           ELSE << <<"{}:{}?", file_index, spec>> >>)
          \o (IF Len(codec_args) > 0
              THEN streams_tokens(spec, first_stream, 0, stream_count, codec_args,
                                  metadata, default_stream)
              ELSE <<>>))

\* probe_media_property(..., "codec_name", n, stream_type) on a file whose
\* streams of that type have the codec names `names`: ffprobe prints nothing
\* for a stream that does not exist.
probe_codec_name(names, n) ==
    IF n + 1 \in 1..Len(names) THEN names[n + 1] ELSE ""

\* The per-stream codec list of stream_map under convertonly: stream n of the
\* input is probed for n in range(first_stream, first_stream + input_streams).
convert_only_list(encoder, encoder_args, first_stream, input_streams, names) ==
    [k \in 1..input_streams |->
        IF <<probe_codec_name(names, first_stream + k - 1)>> = encoder
        THEN << <<"copy">> >> ELSE encoder_args]

\* stream_map(primary, args, stream_type, input_streams, first_stream,
\* input_file); `names` are the codec names of input_file's streams of
\* stream_type, read only when the convertonly branch probes them.
stream_map(primary, args, stream_type, input_streams, first_stream, names) ==
    LET encoder == IF primary THEN stream_type_arg(args.codec, stream_type)
                   ELSE stream_type_arg(args.addcodec, stream_type)
        enc == stream_codec_to_encoder(stream_type, encoder, args)
        encoder_args == enc.val
        encoder_list ==
            IF primary /\ Len(encoder_args) > 0
               /\ stream_type_bool(args.convertonly, stream_type)
            THEN convert_only_list(encoder, encoder_args, first_stream, input_streams, names)
            ELSE [k \in 1..input_streams |-> encoder_args]
        default_stream ==
            IF stream_type_bool(args.adddefault, stream_type)
            THEN (IF primary THEN <<FALSE>> ELSE <<TRUE>>) ELSE <<>>
        language == IF primary THEN stream_type_arg(args.lang, stream_type)
                    ELSE stream_type_arg(args.addlang, stream_type)
        metadata == IF language = <<>> \/ language = <<"">> THEN <<>>
                    ELSE << <<"language={}", language[1]>> >>
    IN IF enc.err THEN Raise
       ELSE Return(stream_map_args(stream_type, 0,
                       stream_type_bool(args.nocopy, stream_type),
                       stream_type_arg(args.singlestream, stream_type),
                       first_stream, input_streams, encoder_list, metadata,
                       default_stream))

\* ------------------------------------------------------------------------
\* Geometry
\* ------------------------------------------------------------------------

\* A padding that rounds down to the multiple below.
pad_resolution_rounds_down(res, padding) == res - (res % padding)

\* pad_resolution; padding = 0 makes "res % padding" raise ZeroDivisionError.
pad_resolution(res, padding) ==
    IF res % padding = 0 THEN res ELSE res + padding - (res % padding)

get_dimensions_from_args(args) ==
    CASE args.hd -> <<1280, 720>>
      [] args.fhd -> <<1920, 1080>>
      [] args.qhd -> <<2560, 1440>>
      [] args.uhd -> <<3840, 2160>>
      [] OTHER -> <<args.width, args.height>>

\* A crop that is centred whatever the anchor.
crop_origin_centred(crop, iw, ih, ow, oh) == <<(iw - ow) \div 2, (ih - oh) \div 2>>

\* The crop origin for an anchor.
crop_origin(crop, iw, ih, ow, oh) ==
    CASE crop = "center" -> <<(iw - ow) \div 2, (ih - oh) \div 2>>
      [] crop = "topleft" -> <<0, 0>>
      [] crop = "left" -> <<0, (ih - oh) \div 2>>
      [] crop = "bottomleft" -> <<0, ih - oh>>
      [] crop = "bottom" -> <<(iw - ow) \div 2, ih - oh>>
      [] crop = "bottomright" -> <<iw - ow, ih - oh>>
      [] crop = "right" -> <<iw - ow, (ih - oh) \div 2>>
      [] crop = "topright" -> <<iw - ow, 0>>
      [] crop = "top" -> <<(iw - ow) \div 2, 0>>

\* A resize that derives the missing dimension and stops there: no crop, and
\* no second look at the aspect ratio.
resize_filter_derives_only(args, ow0, oh0, iw, ih, ar) ==
    LET p == args.padding
        ow1 == IF ow0 = 0 THEN pad_resolution((oh0 * ar[1]) \div ar[2], p) ELSE ow0
        oh1 == IF oh0 = 0 THEN pad_resolution((ow1 * ar[2]) \div ar[1], p) ELSE oh0
    IN Return([filter |-> <<"scale={}:{},setsar=1:1", ow1, oh1>>,
               width |-> ow1, height |-> oh1])

\* A crop that takes the requested window as it is, without fitting it into
\* the input.
resize_filter_crops_unclamped(args, ow0, oh0, iw, ih, ar) ==
    IF args.crop = "" THEN resize_filter_derives_only(args, ow0, oh0, iw, ih, ar)
    ELSE LET p == args.padding
             ow == IF ow0 = 0 THEN pad_resolution((oh0 * ar[1]) \div ar[2], p) ELSE ow0
             oh == IF oh0 = 0 THEN pad_resolution((ow * ar[2]) \div ar[1], p) ELSE oh0
             xy == crop_origin(args.crop, iw, ih, ow, oh)
         IN Return([filter |-> <<"crop={}:{}:{}:{}", ow, oh, xy[1], xy[2]>>,
                    width |-> ow, height |-> oh])

\* The scale or crop branch of video_filters_from_args for an input of
\* iw x ih with aspect ratio ar = <<num, den>> (the float num / den, kept as
\* an exact fraction). Raises on a division by zero.
resize_filter(args, ow0, oh0, iw, ih, ar) ==
    LET p == args.padding
        ow1 == IF ow0 = 0 THEN pad_resolution((oh0 * ar[1]) \div ar[2], p) ELSE ow0
        oh1 == IF oh0 = 0 THEN pad_resolution((ow1 * ar[2]) \div ar[1], p) ELSE oh0
    IN IF p = 0 /\ (ow0 = 0 \/ oh0 = 0) THEN Raise
       ELSE IF oh0 = 0 /\ ar[1] = 0 THEN Raise
       ELSE IF args.crop # ""
       THEN LET ow == IF ow1 > iw THEN iw ELSE ow1
                oh == IF oh1 > ih THEN ih ELSE oh1
                xy == crop_origin(args.crop, iw, ih, ow, oh)
            IN Return([filter |-> <<"crop={}:{}:{}:{}", ow, oh, xy[1], xy[2]>>,
                       width |-> ow, height |-> oh])
       ELSE IF oh1 = 0 THEN Raise
       ELSE IF ar[1] * oh1 < ow1 * ar[2]
       THEN IF p = 0 THEN Raise
            ELSE LET ow == pad_resolution((oh1 * ar[1]) \div ar[2], p)
                 IN Return([filter |-> <<"scale={}:{},setsar=1:1", ow, oh1>>,
                            width |-> ow, height |-> oh1])
       ELSE IF ar[1] * oh1 > ow1 * ar[2]
       THEN IF p = 0 \/ ar[1] = 0 THEN Raise
            ELSE LET oh == pad_resolution((ow1 * ar[2]) \div ar[1], p)
                 IN Return([filter |-> <<"scale={}:{},setsar=1:1", ow1, oh>>,
                            width |-> ow1, height |-> oh])
       ELSE Return([filter |-> <<"scale={}:{},setsar=1:1", ow1, oh1>>,
                    width |-> ow1, height |-> oh1])

SDR_FILTER == <<"scale=in_color_matrix=auto:in_range=auto:out_color_matrix=bt709:out_range=tv">>

\* A no-op test that needs both requested dimensions to equal the input's.
video_filters_from_args_both_equal(args, output_width, output_height, dims) ==
    LET pre == IF args.sdr THEN <<SDR_FILTER>> ELSE <<>>
        post == IF args.deshake THEN << <<"deshake">> >> ELSE <<>>
    IN IF output_width = 0 /\ output_height = 0
       THEN Return([filters |-> pre \o post, width |-> output_width, height |-> output_height])
       ELSE IF dims.height = <<>> \/ dims.width = <<>> THEN Raise
       ELSE LET iw == dims.width[1]
                ih == dims.height[1]
                usable == dims.ar # <<>> /\ dims.ar[2] # 0
                ar == IF usable THEN dims.ar ELSE <<iw, ih>>
            IN IF ~usable /\ ih = 0 THEN Raise
               ELSE IF iw = 0 \/ ih = 0 THEN Raise
               ELSE IF iw = output_width /\ ih = output_height
               THEN Return([filters |-> pre \o post, width |-> 0, height |-> 0])
               ELSE LET r == resize_filter(args, output_width, output_height, iw, ih, ar)
                    IN IF r.err THEN Raise
                       ELSE Return([filters |-> pre \o <<r.val.filter>> \o post,
                                    width |-> r.val.width, height |-> r.val.height])

\* video_filters_from_args. `dims` is what ffprobe answers for the first video
\* stream: width and height (<<>> when the answer is no integer) and the
\* display aspect ratio (<<>> when it has no colon or is no number).
video_filters_from_args(args, output_width, output_height, dims) ==
    LET pre == IF args.sdr THEN <<SDR_FILTER>> ELSE <<>>
        post == IF args.deshake THEN << <<"deshake">> >> ELSE <<>>
    IN IF output_width = 0 /\ output_height = 0
       THEN Return([filters |-> pre \o post, width |-> output_width, height |-> output_height])
       ELSE IF dims.height = <<>> \/ dims.width = <<>> THEN Raise
       ELSE LET iw == dims.width[1]
                ih == dims.height[1]
                usable == dims.ar # <<>> /\ dims.ar[2] # 0
                ar == IF usable THEN dims.ar ELSE <<iw, ih>>
            IN IF ~usable /\ ih = 0 THEN Raise
               ELSE IF iw = 0 \/ ih = 0 THEN Raise
               ELSE IF iw = output_width \/ ih = output_height
               THEN Return([filters |-> pre \o post, width |-> 0, height |-> 0])
               ELSE LET r == resize_filter(args, output_width, output_height, iw, ih, ar)
                    IN IF r.err THEN Raise
                       ELSE Return([filters |-> pre \o <<r.val.filter>> \o post,
                                    width |-> r.val.width, height |-> r.val.height])

\* ------------------------------------------------------------------------
\* File names and the suffix
\* ------------------------------------------------------------------------

\* A path is <<stem, extension>>; the extension starts at the last '.' and is
\* "" when the name has none.
get_container_extension(args, input_file) ==
    IF args.container # "" THEN <<".{}", args.container>> ELSE <<input_file[2]>>

video_arg_to_codec(arg) ==
    IF arg \in {"h264nv", "h264n5"} THEN "h264" ELSE arg

\* The part of the suffix one stream type contributes. Formatting the crop
\* anchor reads the attribute "args" of a string and raises.
suffix_part(args, stream_type, width, height) ==
    IF stream_type_bool(args.nocopy, stream_type)
    THEN Return(<< <<"_no{}", STREAM_TYPES_DICT[stream_type]>> >>)
    ELSE IF ~stream_type_bool(args.codec, stream_type) THEN Return(<<>>)
    ELSE IF stream_type = "v" /\ (width # 0 \/ height # 0) /\ args.crop # "" THEN Raise
    ELSE Return(
        << <<"_{}", video_arg_to_codec(stream_type_arg(args.codec, stream_type)[1])>> >>
        \o (IF stream_type = "v"
            THEN (IF args.sdr THEN << <<"_SDR">> >>
                  ELSE IF args.hdr THEN << <<"_HDR">> >> ELSE <<>>)
                 \o (IF args.crf # 0 THEN << <<"_CRF-{}", args.crf>> >> ELSE <<>>)
                 \o (IF args.preset # "" THEN << <<"_preset-{}", args.preset>> >> ELSE <<>>)
                 \o (IF args.tune # "" THEN << <<"_tune-{}", args.tune>> >> ELSE <<>>)
                 \o (IF width # 0 \/ height # 0
                     THEN << <<"_{}x{}", width, height>> >> ELSE <<>>)
            ELSE <<>>)
        \o (IF stream_type = "a"
            THEN (IF args.mono THEN << <<"-1.0">> >>
                  ELSE IF args.stereo THEN << <<"-2.0">> >> ELSE <<>>)
            ELSE <<>>))

RECURSIVE suffix_from(_, _, _, _)
suffix_from(args, k, width, height) ==
    IF k > Len(STREAM_TYPES_SHORT) THEN Return(<<>>)
    ELSE LET part == suffix_part(args, STREAM_TYPES_SHORT[k], width, height)
             rest == suffix_from(args, k + 1, width, height)
         IN IF part.err \/ rest.err THEN Raise ELSE Return(part.val \o rest.val)

suffix_str(args, width, height) == suffix_from(args, 1, width, height)

\* ------------------------------------------------------------------------
\* Bounds of the model and the environment
\* ------------------------------------------------------------------------

\* The longest batch of input files.
MaxFiles == 2
\* The most streams of one type a probed file reports.
MaxStreams == 2
\* The most streams a probed primary input reports over all types.
MaxFileStreams == 2

\* What probe_stream_count can answer for a primary input.
StreamCountMaps ==
    {c \in [StreamTypes -> 0..MaxStreams] :
        c["v"] + c["a"] + c["s"] + c["t"] + c["d"] <= MaxFileStreams}

\* Codec names ffprobe may report for a stream of a type.
ProbedCodecNames(stream_type) ==
    CASE stream_type = "v" -> {"h264", "hevc"}
      [] stream_type = "a" -> {"aac", "mp3"}
      [] stream_type = "s" -> {"srt", "ass"}
      [] OTHER -> {"bin"}

\* What ffprobe may answer for the geometry of an input.
ProbedDims ==
    { [width |-> <<1920>>, height |-> <<1080>>, ar |-> <<16, 9>>],
      [width |-> <<1280>>, height |-> <<720>>, ar |-> <<>>],
      [width |-> <<640>>, height |-> <<480>>, ar |-> <<4, 3>>],
      [width |-> <<720>>, height |-> <<576>>, ar |-> <<16, 9>>],
      [width |-> <<>>, height |-> <<>>, ar |-> <<>>] }

\* The exit statuses of the engine.
ReturnCodes == {0, 1, 3}

\* Input paths, as <<stem, extension>>.
FileNames == { <<"a", ".mkv">>, <<"noext", "">> }
AddFile == <<"add", ".mka">>
OutputFile == <<"out", ".mkv">>
OutputDir == <<"outdir", "">>

\* ------------------------------------------------------------------------
\* State
\* ------------------------------------------------------------------------

VARIABLES
    pc,                    \* where main / process_input stands
    args,                  \* the argparse namespace
    input_files,           \* main's list of input files
    output_isdir,          \* os.path.isdir(args.output)
    job_num,               \* process_input: files started so far
    err_count,             \* process_input: the error counter
    input_streams_counts,  \* stream counts of the current input, by type
    add_counts,            \* probed stream count of the added file, by type
    codec_names,           \* probed codec names of the current input, by type
    stream_pos,            \* position of the mapping loop in STREAM_TYPES_SHORT
    cmdline,               \* the command line being built
    cmdsrc,                \* for each token of cmdline, the code that appended it
    output_width,
    output_height,
    input_dims,            \* probed geometry of the current input (NoDims: not probed)
    returncode,            \* the engine's status for the last file run
    exit_code,             \* <<>>, or <<status>> once the program has ended
    probed,                \* some file has been probed
    engine_calls,          \* how often the engine was invoked
    compiled               \* history: the commands compiled so far, when kept

vars == <<pc, args, input_files, output_isdir, job_num, err_count,
          input_streams_counts, add_counts, codec_names, stream_pos, cmdline,
          cmdsrc, output_width, output_height, input_dims, returncode, exit_code,
          probed, engine_calls, compiled>>

NoCounts == [t \in StreamTypes |-> 0]
NoNames == [t \in StreamTypes |-> <<>>]
NoDims == [width |-> <<>>, height |-> <<>>, ar |-> <<>>]

\* The variables of one file's compilation, as process_input leaves them when
\* it moves to the next file.
file_vars == <<input_streams_counts, add_counts, codec_names, stream_pos, cmdline,
               cmdsrc, output_width, output_height, input_dims>>

env_vars == <<args, input_files, output_isdir>>

\* The history of a run that keeps none, and of one that starts keeping it.
NoHistory == [kept |-> FALSE, commands |-> {}]
EmptyHistory == [kept |-> TRUE, commands |-> {}]

Tag(tokens, tag) == [i \in 1..Len(tokens) |-> tag]

\* ------------------------------------------------------------------------
\* main
\* ------------------------------------------------------------------------

\* parser.parse_args: a rejected command line ends the program with status 2.
ParseArgs ==
    /\ pc = "parse"
    /\ IF ParserRejects(args)
       THEN pc' = "exited" /\ exit_code' = <<ARGPARSE_ERROR>>
       ELSE pc' = "main" /\ exit_code' = exit_code
    /\ UNCHANGED <<env_vars, compiled, job_num, err_count, file_vars, returncode, probed, engine_calls>>

IsFile(path) == path # "missing"

\* The input checks of main before validation.
main_input_error(a, files, isdir) ==
    IF Len(files) = 0 THEN <<ENOENT>>
    ELSE IF Len(files) > 1 /\ ~isdir THEN <<EFAULT>>
    ELSE IF a.addattach # "" /\ ~IsFile(a.addattach) THEN <<ENOENT>>
    ELSE <<>>

MainCheckInputs ==
    /\ pc = "main"
    /\ LET e == main_input_error(args, input_files, output_isdir)
       IN IF e # <<>>
          THEN pc' = "returned" /\ exit_code' = e
          ELSE pc' = "validate" /\ exit_code' = exit_code
    /\ UNCHANGED <<env_vars, compiled, job_num, err_count, file_vars, returncode, probed, engine_calls>>

\* A main that logs the validation failure and goes on to the batch.
main_after_validation_proceeds(rejected) == [pc |-> "loop", exit_code |-> <<>>]

\* What main does with the validator's verdict: the next position and the
\* value main returns there.
main_after_validation(rejected) ==
    IF rejected THEN [pc |-> "returned", exit_code |-> <<EINVAL>>]
    ELSE [pc |-> "loop", exit_code |-> <<>>]

MainValidate ==
    /\ pc = "validate"
    /\ LET r == main_after_validation(check_valid_arguments(args))
       IN pc' = r.pc /\ exit_code' = r.exit_code
    /\ UNCHANGED <<env_vars, compiled, job_num, err_count, file_vars, returncode, probed, engine_calls>>

\* process_input has run through its list; main logs the summary and returns 0.
MainReturn ==
    /\ pc = "loop"
    /\ job_num = Len(input_files)
    /\ pc' = "returned"
    /\ exit_code' = <<0>>
    /\ UNCHANGED <<env_vars, compiled, job_num, err_count, file_vars, returncode, probed, engine_calls>>

\* ------------------------------------------------------------------------
\* process_input: one file
\* ------------------------------------------------------------------------

PathToken(path) == <<"{}{}", path[1], path[2]>>

\* The -i directives of the secondary inputs, for the types from position k on.
RECURSIVE secondary_inputs(_, _)
secondary_inputs(a, k) ==
    IF k > Len(STREAM_TYPES_SHORT) THEN <<>>
    ELSE LET t == STREAM_TYPES_SHORT[k]
         IN (IF stream_type_bool(a.addfile, t)
             THEN (IF stream_type_bool(a.addlooped, t)
                   THEN << <<"-stream_loop">>, <<"-1">> >> ELSE <<>>)
                  \o << <<"-i">>, PathToken(stream_type_arg(a.addfile, t)[1]) >>
             ELSE <<>>)
            \o secondary_inputs(a, k + 1)

\* A command line that starts with the number of the job: something of the
\* files processed before finds its way into the command.
command_head_numbered(a, input_file) ==
    << <<a.ffmpegbin>>, <<"{}", job_num>>, <<"-i">>, PathToken(input_file) >>

\* The command line up to the stream mapping.
command_head(a, input_file) ==
    << <<a.ffmpegbin>> >>
    \o (IF a.overwrite THEN << <<"-y">> >> ELSE <<>>)
    \o (IF a.sequence THEN << <<"-r">>, <<a.framerate>>, <<"-f">>, <<"image2">> >> ELSE <<>>)
    \o << <<"-i">>, PathToken(input_file) >>
    \o secondary_inputs(a, 1)
    \o (IF ~a.nounknown THEN << <<"-copy_unknown">> >> ELSE <<>>)

\* A per-file error that counts the error but lets the loop body go on to
\* the engine.
SkipFile_falls_through ==
    /\ err_count' = err_count + 1
    /\ pc' = "run"
    /\ UNCHANGED <<input_streams_counts, add_counts, codec_names, stream_pos,
                   cmdline, cmdsrc, output_width, output_height, input_dims>>

\* `continue` after a per-file error: the counter goes up by one and the loop
\* moves on; nothing of this file's compilation is read again.
SkipFile ==
    /\ err_count' = err_count + 1
    /\ pc' = "loop"
    /\ input_streams_counts' = NoCounts
    /\ add_counts' = NoCounts
    /\ codec_names' = NoNames
    /\ stream_pos' = 0
    /\ cmdline' = <<>>
    /\ cmdsrc' = <<>>
    /\ output_width' = 0
    /\ output_height' = 0
    /\ input_dims' = NoDims

\* The head of the loop body: the extension check, the stream-count probe and
\* the start of the command line.
StartFile ==
    /\ pc = "loop"
    /\ job_num < Len(input_files)
    /\ job_num' = job_num + 1
    /\ LET input_file == input_files[job_num + 1]
       IN IF input_file[2] = ""
          THEN SkipFile /\ probed' = probed
          ELSE \E counts \in StreamCountMaps :
                 /\ input_streams_counts' = counts
                 /\ probed' = TRUE
                 /\ output_width' = get_dimensions_from_args(args)[1]
                 /\ output_height' = get_dimensions_from_args(args)[2]
                 /\ cmdline' = command_head(args, input_file)
                 /\ cmdsrc' = Tag(command_head(args, input_file), <<"head", "">>)
                 /\ stream_pos' = 1
                 /\ pc' = "map"
                 /\ UNCHANGED <<err_count, add_counts, codec_names, input_dims>>
    /\ UNCHANGED <<env_vars, compiled, returncode, exit_code, engine_calls>>

\* A bounds test that accepts an index equal to the stream count.
index_out_of_range_off_by_one(index, count) == index > count

\* The bounds check of a single-stream request: TRUE iff it raises.
index_out_of_range(index, count) == index + 1 > count

\* One iteration of the mapping loop for stream_type: `count` is the probed
\* count of the primary input, `add_n` the probed count of the added file,
\* `names` the codec names of the primary input's streams of this type.
map_stream_type(a, stream_type, count, add_n, names) ==
    LET add_file == stream_type_arg(a.addfile, stream_type)
        addstream == stream_type_arg(a.addstream, stream_type)
        add_err == add_file # <<>> /\ addstream # <<>>
                   /\ index_out_of_range(addstream[1], add_n)
        input_add_streams ==
            IF add_file = <<>> THEN 0 ELSE IF addstream # <<>> THEN 1 ELSE add_n
        nocopy == stream_type_bool(a.nocopy, stream_type)
        single == stream_type_arg(a.singlestream, stream_type)
        prim_err == ~nocopy /\ single # <<>> /\ index_out_of_range(single[1], count)
        input_streams == IF nocopy THEN 0 ELSE IF single # <<>> THEN 1 ELSE count
        addfirst == stream_type_bool(a.addfirst, stream_type)
        with_primary == IF addfirst THEN count # 0 ELSE input_streams # 0
        with_added == input_add_streams # 0
        prim == stream_map(TRUE, a, stream_type, input_streams,
                           IF addfirst THEN input_add_streams ELSE 0, names)
        added == stream_map(FALSE, a, stream_type, input_add_streams,
                            IF addfirst THEN 0 ELSE input_streams, <<>>)
        ptok == IF with_primary THEN prim.val ELSE <<>>
        atok == IF with_added THEN added.val ELSE <<>>
        psrc == Tag(ptok, <<"primary", stream_type>>)
        asrc == Tag(atok, <<"added", stream_type>>)
    IN IF add_err \/ prim_err \/ (with_primary /\ prim.err) \/ (with_added /\ added.err)
       THEN [err |-> TRUE, tokens |-> <<>>, src |-> <<>>]
       ELSE IF addfirst
       THEN [err |-> FALSE, tokens |-> atok \o ptok, src |-> asrc \o psrc]
       ELSE [err |-> FALSE, tokens |-> ptok \o atok, src |-> psrc \o asrc]

\* The added file is probed only when addfile names one for the type.
AddCountChoices(a, stream_type) ==
    IF stream_type_arg(a.addfile, stream_type) # <<>> THEN 0..MaxStreams ELSE {0}

\* Codec names are probed only on the convertonly branch of stream_map, which
\* needs a non-empty encoder list (a video, audio or subtitle type).
CodecNameChoices(a, stream_type, count) ==
    IF /\ stream_type_bool(a.convertonly, stream_type)
       /\ stream_type \in {"v", "a", "s"}
       /\ ~stream_type_bool(a.nocopy, stream_type)
    THEN [1..count -> ProbedCodecNames(stream_type)]
    ELSE {<<>>}

MapStreamType ==
    /\ pc = "map"
    /\ LET t == STREAM_TYPES_SHORT[stream_pos]
       IN \E add_n \in AddCountChoices(args, t) :
          \E names \in CodecNameChoices(args, t, input_streams_counts[t]) :
            LET r == map_stream_type(args, t, input_streams_counts[t], add_n, names)
            IN IF r.err
               THEN SkipFile
               ELSE /\ cmdline' = cmdline \o r.tokens
                    /\ cmdsrc' = cmdsrc \o r.src
                    /\ add_counts' = [add_counts EXCEPT ![t] = add_n]
                    /\ codec_names' = [codec_names EXCEPT ![t] = names]
                    /\ stream_pos' = stream_pos + 1
                    /\ pc' = IF stream_pos = Len(STREAM_TYPES_SHORT) THEN "filters" ELSE "map"
                    /\ UNCHANGED <<err_count, input_streams_counts, output_width,
                                   output_height, input_dims>>
    /\ UNCHANGED <<env_vars, compiled, job_num, returncode, exit_code, probed, engine_calls>>

\* The geometry is probed only when a width or a height is requested.
DimChoices(ow, oh) ==
    IF ow # 0 \/ oh # 0 THEN ProbedDims
    ELSE {NoDims}

\* The video and audio filter steps (audio_filters_from_args returns no
\* filter and cannot raise).
Filters ==
    /\ pc = "filters"
    /\ IF stream_type_bool(args.nocopy, "v")
       THEN /\ pc' = "finish"
            /\ UNCHANGED <<err_count, file_vars>>
       ELSE \E dims \in DimChoices(output_width, output_height) :
            LET r == video_filters_from_args(args, output_width, output_height, dims)
                tokens == IF Len(r.val.filters) > 0
                          THEN << <<"-vf">>, <<",">> \o r.val.filters >> ELSE <<>>
            IN IF r.err
               THEN SkipFile
               ELSE /\ cmdline' = cmdline \o tokens
                    /\ cmdsrc' = cmdsrc \o Tag(tokens, <<"filter", "">>)
                    /\ output_width' = r.val.width
                    /\ output_height' = r.val.height
                    /\ input_dims' = dims
                    /\ pc' = "finish"
                    /\ UNCHANGED <<err_count, input_streams_counts, add_counts,
                                   codec_names, stream_pos>>
    /\ UNCHANGED <<env_vars, compiled, job_num, returncode, exit_code, probed, engine_calls>>

\* A tail that strips chapters and metadata before the end-of-encode directive.
command_tail_strips_first(a) ==
    (IF ~stream_type_bool(a.nocopy, "c")
     THEN << <<"-map_chapters">>, <<"-1">> >> ELSE <<>>)
    \o (IF ~stream_type_bool(a.nocopy, "m")
        THEN << <<"-map_metadata">>, <<"-1">> >> ELSE <<>>)
    \o (IF a.shortest THEN << <<"-shortest">> >>
        ELSE IF a.duration # "" THEN << <<"-t">>, <<a.duration>> >> ELSE <<>>)
    \o (IF a.addattach # ""
        THEN << <<"-attach">>, <<a.addattach>>, <<"-metadata:s:t">>,
                <<"mimetype={}", a.attachtype>> >>
        ELSE <<>>)

\* The directives after the filters, up to the attachment.
command_tail(a) ==
    (IF a.shortest THEN << <<"-shortest">> >>
     ELSE IF a.duration # "" THEN << <<"-t">>, <<a.duration>> >> ELSE <<>>)
    \o (IF ~stream_type_bool(a.nocopy, "c")
        THEN << <<"-map_chapters">>, <<"-1">> >> ELSE <<>>)
    \o (IF ~stream_type_bool(a.nocopy, "m")
        THEN << <<"-map_metadata">>, <<"-1">> >> ELSE <<>>)
    \o (IF a.addattach # ""
        THEN << <<"-attach">>, <<a.addattach>>, <<"-metadata:s:t">>,
                <<"mimetype={}", a.attachtype>> >>
        ELSE <<>>)

\* The output path token: the suffix goes before the extension.
output_token(a, isdir, input_file, suffix) ==
    IF isdir
    THEN <<"{}/{}{}{}", OutputDir[1], input_file[1], suffix,
           get_container_extension(a, input_file)>>
    ELSE <<"{}{}{}", OutputFile[1], suffix, OutputFile[2]>>

\* What the history keeps of a compilation: the job, the facts it was
\* compiled against, and the command and the suffix it produced.
Compilation(command, suffix) ==
    [job |-> job_num, file |-> input_files[job_num], counts |-> input_streams_counts,
     added |-> add_counts, names |-> codec_names, dims |-> input_dims,
     cmdline |-> command, suffix |-> suffix]

FinishCommand ==
    /\ pc = "finish"
    /\ LET input_file == input_files[job_num]
           sfx == IF args.suffix THEN suffix_str(args, output_width, output_height)
                  ELSE Return(<<>>)
           tail == command_tail(args)
           command == cmdline \o tail
                      \o << output_token(args, output_isdir, input_file, sfx.val) >>
       IN IF sfx.err
          THEN SkipFile /\ compiled' = compiled
          ELSE /\ cmdline' = command
               /\ cmdsrc' = cmdsrc \o Tag(tail, <<"tail", "">>) \o << <<"output", "">> >>
               /\ compiled' = IF compiled.kept
                              THEN [compiled EXCEPT !.commands = @ \cup {Compilation(command, sfx.val)}]
                              ELSE compiled
               /\ pc' = "run"
               /\ UNCHANGED <<err_count, input_streams_counts, add_counts, codec_names,
                              stream_pos, output_width, output_height, input_dims>>
    /\ UNCHANGED <<env_vars, job_num, returncode, exit_code, probed, engine_calls>>

\* An engine status that never ends the batch.
after_engine_continues(a, rc) == [pc |-> "loop", exit_code |-> <<>>]

\* What process_input does once the engine has returned: the loop goes on,
\* or exit(returncode) ends the program.
after_engine(a, rc) ==
    IF rc # 0 /\ a.stoponerror
    THEN [pc |-> "exited", exit_code |-> <<rc>>]
    ELSE [pc |-> "loop", exit_code |-> <<>>]

\* The compiled command is printed (dry run) or handed to the engine.
RunEngine ==
    /\ pc = "run"
    /\ IF args.dryrun
       THEN /\ pc' = "loop"
            /\ UNCHANGED <<err_count, returncode, exit_code, engine_calls>>
       ELSE \E rc \in ReturnCodes :
            /\ engine_calls' = engine_calls + 1
            /\ returncode' = <<rc>>
            /\ err_count' = IF rc # 0 THEN err_count + 1 ELSE err_count
            /\ pc' = after_engine(args, rc).pc
            /\ exit_code' = after_engine(args, rc).exit_code
    /\ input_streams_counts' = NoCounts
    /\ add_counts' = NoCounts
    /\ codec_names' = NoNames
    /\ stream_pos' = 0
    /\ cmdline' = <<>>
    /\ cmdsrc' = <<>>
    /\ output_width' = 0
    /\ output_height' = 0
    /\ input_dims' = NoDims
    /\ UNCHANGED <<env_vars, compiled, job_num, probed>>

Next ==
    \/ ParseArgs
    \/ MainCheckInputs
    \/ MainValidate
    \/ StartFile
    \/ MapStreamType
    \/ Filters
    \/ FinishCommand
    \/ RunEngine
    \/ MainReturn

\* ------------------------------------------------------------------------
\* Initial states: the command lines and batches explored
\* ------------------------------------------------------------------------

\* The codec requested for a type in the explored command lines.
CodecFor(t) ==
    CASE t = "v" -> "h264"
      [] t = "a" -> "aac"
      [] t = "s" -> "srt"
      [] OTHER -> "aac"

\* The stream index requested by singlestream and addstream.
RequestedIndex == 1

Flag(on, t) == IF on THEN << <<t>> >> ELSE <<>>
Pair(on, t, v) == IF on THEN << <<t, v>> >> ELSE <<>>

\* Mapping options, all for one stream type.
MappingArgs ==
    { [DefaultArgs EXCEPT
         !.nocopy = Flag(nc, t),
         !.singlestream = Pair(ss, t, RequestedIndex),
         !.convertonly = Flag(co, t),
         !.codec = Pair(cd, t, CodecFor(t)),
         !.addfile = Pair(af, t, AddFile),
         !.addstream = Pair(as, t, RequestedIndex),
         !.addfirst = Flag(a1, t)] :
      t \in StreamTypes, nc \in BOOLEAN, ss \in BOOLEAN, co \in BOOLEAN,
      cd \in BOOLEAN, af \in BOOLEAN, as \in BOOLEAN, a1 \in BOOLEAN }

\* Options the dependency and exclusion rules read, over all stream types.
OptTypes == StreamTypes \cup {"-"}
DependencyArgs ==
    { [DefaultArgs EXCEPT
         !.bitrate = Pair(b # "-", b, "1M"),
         !.codec = Pair(c # "-", c, CodecFor(c)),
         !.addcodec = Pair(ac # "-", ac, CodecFor(ac)),
         !.addfile = Pair(ac # "-", ac, AddFile),
         !.nocopy = Flag(n # "-", n)] :
      b \in OptTypes, c \in {"-", "v", "a", "s"}, ac \in {"-", "v", "a", "s"},
      n \in OptTypes \cup {"c", "m"} }

\* Scalar options, at most two of them, with or without a codec.
ScalarOpts == {"mono", "stereo", "8bit", "10bit", "sdr", "hdr", "shortest", "duration",
               "hd", "fhd", "width", "height", "crop", "-"}
SetScalar(a, n) ==
    CASE n = "-" -> a
      [] n \in BoolArgs -> [a EXCEPT ![n] = TRUE]
      [] n = "duration" -> [a EXCEPT ![n] = "10"]
      [] n = "width" -> [a EXCEPT ![n] = 1280]
      [] n = "height" -> [a EXCEPT ![n] = 720]
      [] n = "crop" -> [a EXCEPT ![n] = "center"]
ScalarArgs ==
    { SetScalar(SetScalar([DefaultArgs EXCEPT !.codec = Pair(c # "-", c, CodecFor(c))], x), y) :
      x \in ScalarOpts, y \in ScalarOpts, c \in {"-", "v", "a"} }

\* Options of the batch loop.
BatchArgs ==
    { [DefaultArgs EXCEPT !.stoponerror = soe, !.dryrun = dry, !.suffix = sfx,
                          !.addattach = att] :
      soe \in BOOLEAN, dry \in BOOLEAN, sfx \in BOOLEAN, att \in {"", "cover.jpg", "missing"} }

\* Two -codec options on one command line, each with a codec of its own type.
CodecPairs == {<<t, CodecFor(t)>> : t \in {"v", "a", "s"}}
CodecPairArgs ==
    { [DefaultArgs EXCEPT !.codec = <<p, q>>] : p \in CodecPairs, q \in CodecPairs }

Batches == UNION {[1..n -> FileNames] : n \in 0..MaxFiles}
\* The mapping options run on two files, so that a file follows a skipped one.
FullBatch == << <<"a", ".mkv">>, <<"a", ".mkv">> >>

Runs ==
    {[args |-> a, files |-> FullBatch, isdir |-> TRUE] : a \in MappingArgs}
    \cup {[args |-> a, files |-> << <<"a", ".mkv">> >>, isdir |-> FALSE] :
            a \in DependencyArgs \cup ScalarArgs \cup CodecPairArgs}
    \cup {[args |-> a, files |-> f, isdir |-> d] :
            a \in BatchArgs, f \in Batches, d \in BOOLEAN}

\* The state after construction, for a family of command lines.
StartOf(runs) ==
    /\ \E r \in runs :
         /\ args = r.args
         /\ input_files = r.files
         /\ output_isdir = r.isdir
    /\ pc = "parse"
    /\ job_num = 0
    /\ err_count = 0
    /\ input_streams_counts = NoCounts
    /\ add_counts = NoCounts
    /\ codec_names = NoNames
    /\ stream_pos = 0
    /\ cmdline = <<>>
    /\ cmdsrc = <<>>
    /\ output_width = 0
    /\ output_height = 0
    /\ input_dims = NoDims
    /\ returncode = <<>>
    /\ exit_code = <<>>
    /\ probed = FALSE
    /\ engine_calls = 0

Init == StartOf(Runs) /\ compiled = NoHistory

Spec == Init /\ [][Next]_vars

\* The geometry options on one file: a width and a height request (0 is
\* "not given") under a padding, without crop ...
CropAnchors == {"center", "left", "right", "top", "bottom", "topleft", "topright",
                "bottomleft", "bottomright"}
RequestedWidths == {0, 1280, 1282, 1920, 2275}
RequestedHeights == {0, 698, 720, 721, 1080}
Paddings == {1, 4}
ScaleArgs ==
    { [DefaultArgs EXCEPT !.width = w, !.height = h, !.padding = p] :
      w \in RequestedWidths, h \in RequestedHeights, p \in Paddings }

\* ... and with crop, which the validator admits only with a video codec:
\* here the codec of an added file.
CropRequests == {<<1280, 720>>, <<1282, 721>>, <<2275, 0>>, <<1920, 720>>}
CropArgs ==
    { [DefaultArgs EXCEPT !.width = r[1], !.height = r[2], !.crop = c,
                          !.addfile = Pair(TRUE, "v", AddFile),
                          !.addcodec = Pair(TRUE, "v", CodecFor("v"))] :
      r \in CropRequests, c \in CropAnchors }

GeomRuns ==
    {[args |-> a, files |-> << <<"a", ".mkv">> >>, isdir |-> FALSE] :
        a \in ScaleArgs \cup CropArgs}

GeomInit == StartOf(GeomRuns) /\ compiled = NoHistory

GeomSpec == GeomInit /\ [][Next]_vars

\* Two files of the same name in one batch (a dry run), each compiled against
\* the facts its own probes give, with the history of the compilations kept.
HistoryArgs ==
    { [a EXCEPT !.dryrun = TRUE] :
      a \in { DefaultArgs,
              [DefaultArgs EXCEPT !.height = 720],
              [DefaultArgs EXCEPT !.suffix = TRUE, !.nocopy = Flag(TRUE, "a")],
              [DefaultArgs EXCEPT !.addfile = Pair(TRUE, "a", AddFile)] } }

HistoryRuns == {[args |-> a, files |-> FullBatch, isdir |-> TRUE] : a \in HistoryArgs}

HistoryInit == StartOf(HistoryRuns) /\ compiled = EmptyHistory

HistorySpec == HistoryInit /\ [][Next]_vars

\* The disposition options on one file: an added file for one stream type,
\* marked default or not, with the options that choose and order the streams.
DispositionArgs ==
    { [DefaultArgs EXCEPT
         !.addfile = Pair(TRUE, t, AddFile),
         !.adddefault = Flag(ad, t),
         !.nocopy = Flag(nc, t),
         !.addfirst = Flag(a1, t),
         !.addstream = Pair(as, t, RequestedIndex),
         !.singlestream = Pair(ss, t, RequestedIndex)] :
      t \in {"a", "s"}, ad \in BOOLEAN, nc \in BOOLEAN, a1 \in BOOLEAN,
      as \in BOOLEAN, ss \in BOOLEAN }

DispositionRuns ==
    {[args |-> a, files |-> << <<"a", ".mkv">> >>, isdir |-> FALSE] : a \in DispositionArgs}

DispositionInit == StartOf(DispositionRuns) /\ compiled = NoHistory

DispositionSpec == DispositionInit /\ [][Next]_vars

\* The options that put a segment into the command, on one file (a dry run):
\* the overwrite and sequence flags, the copy-unknown flag, a looped added
\* audio file, a height, an end-of-encode directive and an attachment.
EndOfEncode == {"-", "shortest", "duration"}
OrderArgs ==
    { SetScalar([DefaultArgs EXCEPT
                   !.dryrun = TRUE,
                   !.overwrite = ow,
                   !.sequence = sq,
                   !.nounknown = nu,
                   !.height = h,
                   !.addattach = att,
                   !.addfile = Pair(lp, "a", AddFile),
                   !.addcodec = Pair(lp, "a", CodecFor("a")),
                   !.addlooped = Flag(lp, "a")], e) :
      ow \in BOOLEAN, sq \in BOOLEAN, nu \in BOOLEAN, h \in {0, 720},
      att \in {"", "cover.jpg"}, lp \in BOOLEAN, e \in EndOfEncode }

OrderRuns ==
    {[args |-> a, files |-> << <<"a", ".mkv">> >>, isdir |-> FALSE] : a \in OrderArgs}

OrderInit == StartOf(OrderRuns) /\ compiled = NoHistory

OrderSpec == OrderInit /\ [][Next]_vars

\* The options the suffix is built from, on one file: a video codec with or
\* without a crop anchor, a requested size and a CRF value.
SuffixArgs ==
    { [DefaultArgs EXCEPT
         !.suffix = TRUE,
         !.codec = Pair(TRUE, "v", CodecFor("v")),
         !.crop = c,
         !.width = r[1],
         !.height = r[2],
         !.crf = q] :
      c \in {"", "center", "topleft"}, r \in {<<1280, 720>>, <<0, 720>>, <<1920, 0>>},
      q \in {0, 17} }

SuffixRuns ==
    {[args |-> a, files |-> << <<"a", ".mkv">> >>, isdir |-> d] :
        a \in SuffixArgs, d \in BOOLEAN}

SuffixInit == StartOf(SuffixRuns) /\ compiled = NoHistory

SuffixSpec == SuffixInit /\ [][Next]_vars

\* ------------------------------------------------------------------------
\* Vocabulary of the properties
\* ------------------------------------------------------------------------

TypePos(t) == CHOOSE i \in 1..Len(STREAM_TYPES_SHORT) : STREAM_TYPES_SHORT[i] = t

\* The mapping loop has finished type t for the current file, and the file's
\* command is still being built or about to run.
Mapped(t) ==
    \/ pc = "map" /\ TypePos(t) < stream_pos
    \/ pc \in {"filters", "finish", "run"}

\* The program is past argument validation and inside the batch.
InBatch == pc \in {"loop", "map", "filters", "finish", "run"}

\* The batch never started: nothing probed, compiled or run.
BatchNotStarted ==
    /\ ~InBatch
    /\ job_num = 0
    /\ ~probed
    /\ cmdline = <<>>
    /\ engine_calls = 0

\* Validation is reached: the parser accepted the command line and main found
\* its inputs.
ReachesValidation ==
    /\ ~ParserRejects(args)
    /\ main_input_error(args, input_files, output_isdir) = <<>>

Ended == pc \in {"returned", "exited"}

TypesOf(name) == arg_stream_type_enumeration(args[name])

\* The number of streams of the primary and of the added group of type t, as
\* the specification defines them.
PrimaryCount(t) ==
    IF stream_type_bool(args.nocopy, t) THEN 0
    ELSE IF stream_type_arg(args.singlestream, t) # <<>> THEN 1
    ELSE input_streams_counts[t]
AddedCount(t) ==
    IF stream_type_arg(args.addfile, t) = <<>> THEN 0
    ELSE IF stream_type_arg(args.addstream, t) # <<>> THEN 1
    ELSE add_counts[t]

\* Positions of cmdline appended for a group ("primary" or "added") of type t.
GroupPos(group, t) == {i \in 1..Len(cmdline) : cmdsrc[i] = <<group, t>>}

\* Positions of the -map selector tokens, and of the codec assignments, of a group.
MapSelectForms == {"{}:{}?", "{}:{}:{}"}
MapForms == MapSelectForms \cup {"-{}:{}?"}
MapPos(group, t) == {i \in GroupPos(group, t) : cmdline[i][1] \in MapForms}
CodecPos(group, t) == {i \in GroupPos(group, t) : cmdline[i][1] = "-c:{}:{}"}

\* The output stream indices a group's codec assignments name.
CodecSlots(group, t) == {cmdline[i][3] : i \in CodecPos(group, t)}

\* ------------------------------------------------------------------------
\* C1
\* ------------------------------------------------------------------------

\* C1: when validation is reached and check_valid_arguments rejects the
\* option set, main returns EINVAL and the batch never starts: no file is
\* probed, no command is compiled, process_input is not entered and the
\* engine is never invoked.
C1_RejectedBatchNeverStarts ==
    (ReachesValidation /\ check_valid_arguments(args)) =>
        /\ BatchNotStarted
        /\ Ended => (pc = "returned" /\ exit_code = <<EINVAL>>)

C1_Witness ==
    /\ ReachesValidation
    /\ check_valid_arguments(args)
    /\ pc = "returned"
    /\ exit_code = <<EINVAL>>

\* ------------------------------------------------------------------------
\* C2
\* ------------------------------------------------------------------------

BitrateWithoutCodec(t) ==
    /\ t \in TypesOf("bitrate")
    /\ t \notin TypesOf("codec")
    /\ t \notin TypesOf("addcodec")

\* C2: an option set with bitrate[t] and neither codec[t] nor addcodec[t] is
\* rejected by check_valid_arguments, whatever codec or addcodec is set for
\* other types, and the batch is never entered with it.
C2_BitrateNeedsCodecOfSameType ==
    \A t \in StreamTypes :
        BitrateWithoutCodec(t) => (check_valid_arguments(args) /\ ~InBatch)

C2_Witness ==
    /\ \E t \in StreamTypes :
         /\ BitrateWithoutCodec(t)
         /\ TypesOf("codec") \cup TypesOf("addcodec") # {}
    /\ ReachesValidation
    /\ pc = "returned"
    /\ exit_code = <<EINVAL>>

\* ------------------------------------------------------------------------
\* C3
\* ------------------------------------------------------------------------

\* C3: an option set with no-copy[t] and codec[t] for the same t is rejected
\* by check_valid_arguments and never enters the batch; when no type has both
\* (no-copy[t] with codec[u], t # u, included) the rule
\* check_arg_stream_exclusive(["nocopy", "codec"]) does not raise.
C3_NoCopyExcludesCodecOfSameType ==
    /\ \A t \in TypesOf("nocopy") \cap TypesOf("codec") :
          check_valid_arguments(args) /\ ~InBatch
    /\ TypesOf("nocopy") \cap TypesOf("codec") = {}
          => ~check_arg_stream_exclusive(args, <<"nocopy", "codec">>)

C3_Witness ==
    /\ TypesOf("nocopy") \cap TypesOf("codec") # {}
    /\ ReachesValidation
    /\ pc = "returned"
    /\ exit_code = <<EINVAL>>

\* ------------------------------------------------------------------------
\* C4
\* ------------------------------------------------------------------------

ScalarGroups == {{"mono", "stereo"}, {"8bit", "10bit"}, {"sdr", "hdr"},
                 {"shortest", "duration"}}

\* Both members of one of the scalar groups are set.
ScalarGroupConflict == \E g \in ScalarGroups : \A n \in g : truthy(args, n)

\* A resolution preset is set together with width or with height.
PresetWithWidthOrHeight ==
    /\ \E i \in 1..Len(RES_ARGS) : truthy(args, RES_ARGS[i])
    /\ truthy(args, "width") \/ truthy(args, "height")

\* How main ends when check_valid_arguments rejects the option set.
RejectedByValidator == pc = "returned" /\ exit_code = <<EINVAL>>

\* How the program ends when parse_args rejects the command line.
RejectedByParser == pc = "exited" /\ exit_code = <<ARGPARSE_ERROR>>

\* C4 as stated: a run whose option set has both members of a scalar group
\* ends the way a preset with width or height ends, rejected by
\* check_valid_arguments with main returning EINVAL.
C4_ScalarGroupsRejectedByValidator ==
    (ScalarGroupConflict /\ Ended) => RejectedByValidator

\* C4 amended: an option set with both members of a scalar group never
\* reaches check_valid_arguments; parse_args rejects it and the program exits
\* with the parser's status 2 before any file is looked at.  A resolution
\* preset with width or height is the case check_valid_arguments rejects:
\* when validation is reached main returns EINVAL.  Neither starts the batch.
C4_ScalarGroupsRejectedByParser ==
    /\ ScalarGroupConflict =>
          /\ BatchNotStarted
          /\ pc \in {"parse", "exited"}
          /\ Ended => RejectedByParser
    /\ PresetWithWidthOrHeight =>
          /\ check_valid_arguments(args)
          /\ BatchNotStarted
          /\ (Ended /\ ReachesValidation) => RejectedByValidator

\* A conflicting pair that no rule of check_valid_arguments would reject,
\* turned down by the parser.
C4_Witness ==
    /\ ScalarGroupConflict
    /\ ~check_valid_arguments(args)
    /\ RejectedByParser

\* ------------------------------------------------------------------------
\* C5
\* ------------------------------------------------------------------------

\* The explicit index requested for the primary (singlestream) or the added
\* (addstream) group of type t does not exist in the probed input.
PrimaryIndexOutOfRange(t) ==
    /\ stream_type_arg(args.singlestream, t) # <<>>
    /\ stream_type_arg(args.singlestream, t)[1] + 1 > input_streams_counts[t]
AddedIndexOutOfRange(t) ==
    /\ stream_type_arg(args.addfile, t) # <<>>
    /\ stream_type_arg(args.addstream, t) # <<>>
    /\ stream_type_arg(args.addstream, t)[1] + 1 > add_counts[t]

\* A step that abandons the file being mapped: it is skipped, counted as one
\* error, and neither the engine nor the program's exit is involved.
C5_SkipCountsOnce ==
    (pc = "map" /\ pc' \notin {"map", "filters"}) =>
        /\ pc' = "loop"
        /\ err_count' = err_count + 1
        /\ job_num' = job_num
        /\ engine_calls' = engine_calls
        /\ exit_code' = <<>>

\* A step taken while files remain starts the next file.
C5_NextFileStarts ==
    (pc = "loop" /\ job_num < Len(input_files)) => job_num' = job_num + 1

\* C5 as stated: no file gets past the mapping of a type whose single-stream
\* index, primary or added, is out of range.
C5_OutOfRangeNeverMapped ==
    \A t \in StreamTypes :
        Mapped(t) => (~PrimaryIndexOutOfRange(t) /\ ~AddedIndexOutOfRange(t))

\* C5 amended: no file gets past the mapping of a type whose added index is
\* out of range, or whose primary index is out of range while no-copy[t] is
\* unset (with no-copy[t] the primary index is not looked at); the file is
\* skipped, the error counter goes up by exactly 1, and the files after it
\* are still started.
C5_OutOfRangeFileSkipped ==
    /\ [](\A t \in StreamTypes :
            Mapped(t) =>
                /\ stream_type_bool(args.nocopy, t) \/ ~PrimaryIndexOutOfRange(t)
                /\ ~AddedIndexOutOfRange(t))
    /\ [][C5_SkipCountsOnce /\ C5_NextFileStarts]_vars

\* The first file was skipped for its out-of-range index (nothing else can
\* fail with these options) and the second one has been compiled.
C5_Witness ==
    /\ args.singlestream # <<>>
    /\ args.nocopy = <<>> /\ args.codec = <<>> /\ args.addfile = <<>>
    /\ pc = "run"
    /\ job_num = Len(input_files)
    /\ err_count = 1
    /\ engine_calls = 0

\* ------------------------------------------------------------------------
\* C6
\* ------------------------------------------------------------------------

EngineFailed == returncode \notin {<<>>, <<0>>}

\* C6: with stop-on-error, an engine invocation that returned non-zero has
\* ended the program with that status (so it is the first one, and the last
\* thing the program did); nothing follows the exit.  Without stop-on-error
\* the program ends short of its last file only when the batch never started.
C6_StopOnError ==
    /\ []((args.stoponerror /\ EngineFailed) =>
            (pc = "exited" /\ exit_code = returncode))
    /\ []((~args.stoponerror /\ Ended /\ job_num < Len(input_files)) =>
            BatchNotStarted)
    /\ [][pc # "exited"]_vars

C6_Witness ==
    /\ args.stoponerror
    /\ pc = "exited"
    /\ exit_code = <<3>>
    /\ Len(input_files) = 2
    /\ job_num = 1
    /\ engine_calls = 1

\* ------------------------------------------------------------------------
\* C7
\* ------------------------------------------------------------------------

\* Positions of the -i directives of the command, and the input indices (the
\* first -i is input 0) at which a path was placed.
InputPos == {i \in 1..Len(cmdline) : cmdline[i] = <<"-i">>}
InputIndexOf(path) ==
    {Cardinality({j \in InputPos : j < i}) :
        i \in {j \in InputPos : j < Len(cmdline) /\ cmdline[j + 1] = PathToken(path)}}

\* C7: every map directive emitted for the added group of type t names the
\* input index at which addfile[t]'s -i was placed, which is at least 1.
C7_AddedMapsNameSecondaryInput ==
    \A t \in StreamTypes :
        Mapped(t) =>
            \A i \in MapPos("added", t) :
                /\ cmdline[i][2] >= 1
                /\ cmdline[i][2] \in InputIndexOf(stream_type_arg(args.addfile, t)[1])

\* ------------------------------------------------------------------------
\* C8
\* ------------------------------------------------------------------------

\* The map directive the added group of type t is due: by explicit index when
\* addstream[t] is set, all streams of the type otherwise.
AddedMapIsOwn(t, i) ==
    IF stream_type_arg(args.addstream, t) # <<>>
    THEN /\ cmdline[i][1] = "{}:{}:{}"
         /\ cmdline[i][4] = stream_type_arg(args.addstream, t)[1]
    ELSE cmdline[i][1] = "{}:{}?"

\* C8: no-copy[t] and singlestream[t] act on the primary group only.  An
\* added group of A >= 1 streams is mapped in select form, by addstream[t]
\* when that is set and never by singlestream[t], no-copy[t] or not, with one
\* codec assignment per added stream.
C8_NoCopyAndSingleStreamArePrimaryOnly ==
    \A t \in StreamTypes :
        (Mapped(t) /\ AddedCount(t) >= 1) =>
            /\ MapPos("added", t) # {}
            /\ \A i \in MapPos("added", t) : AddedMapIsOwn(t, i)
            /\ Cardinality(CodecPos("added", t)) = AddedCount(t)

\* ------------------------------------------------------------------------
\* C9
\* ------------------------------------------------------------------------

Precedes(S, T) == \A i \in S : \A j \in T : i < j

\* C9: when type t has P >= 1 primary and A >= 1 added streams, each group
\* has one codec assignment per stream; with addfirst[t] the added group's
\* tokens come first and take output indices 0..A-1, the primary's A..A+P-1;
\* without it the primary's come first with 0..P-1 and the added take
\* P..P+A-1.
C9_GroupOrderAndIndices ==
    \A t \in StreamTypes :
        (Mapped(t) /\ PrimaryCount(t) >= 1 /\ AddedCount(t) >= 1) =>
            LET P == PrimaryCount(t)
                A == AddedCount(t)
            IN /\ Cardinality(CodecPos("primary", t)) = P
               /\ Cardinality(CodecPos("added", t)) = A
               /\ IF stream_type_bool(args.addfirst, t)
                  THEN /\ Precedes(GroupPos("added", t), GroupPos("primary", t))
                       /\ CodecSlots("added", t) = 0..(A - 1)
                       /\ CodecSlots("primary", t) = A..(A + P - 1)
                  ELSE /\ Precedes(GroupPos("primary", t), GroupPos("added", t))
                       /\ CodecSlots("primary", t) = 0..(P - 1)
                       /\ CodecSlots("added", t) = P..(P + A - 1)

\* Two primary streams mapped after two added ones.
C9_Witness ==
    \E t \in StreamTypes :
        /\ Mapped(t)
        /\ stream_type_bool(args.addfirst, t)
        /\ PrimaryCount(t) = 2
        /\ AddedCount(t) = 2
        /\ CodecSlots("primary", t) = {2, 3}
        /\ pc = "run"

\* ------------------------------------------------------------------------
\* C10
\* ------------------------------------------------------------------------

\* The tokens that follow position i of the command equal `tokens`.
FollowedBy(i, tokens) ==
    /\ i + Len(tokens) <= Len(cmdline)
    /\ SubSeq(cmdline, i + 1, i + Len(tokens)) = tokens

\* C10: with convert-only[t] and codec[t], the k-th mapped primary stream
\* reads input stream s (the singlestream[t] index when set, k otherwise) and
\* writes output slot first + k (first is A under addfirst[t], 0 otherwise);
\* the slot's codec is "copy" iff input stream s already has the requested
\* codec, and the full encoder list otherwise.
C10_ConvertOnlyComparesSameStream ==
    \A t \in {"v", "a", "s"} :
        (/\ Mapped(t)
         /\ stream_type_bool(args.convertonly, t)
         /\ stream_type_arg(args.codec, t) # <<>>
         /\ PrimaryCount(t) >= 1) =>
            LET codec == stream_type_arg(args.codec, t)
                single == stream_type_arg(args.singlestream, t)
                first == IF stream_type_bool(args.addfirst, t) THEN AddedCount(t) ELSE 0
                full == stream_codec_to_encoder(t, codec, args).val
            IN \A k \in 0..(PrimaryCount(t) - 1) :
                 LET s == IF single # <<>> THEN single[1] ELSE k
                 IN \E i \in CodecPos("primary", t) :
                      /\ cmdline[i][3] = first + k
                      /\ IF codec_names[t][s + 1] = codec[1]
                         THEN FollowedBy(i, << <<"copy">> >>)
                         ELSE FollowedBy(i, full)

\* ------------------------------------------------------------------------
\* C11
\* ------------------------------------------------------------------------

\* The mapping loop is about to map the video streams of an input that has
\* at least one, under a video codec without convertonly, and every index the
\* options name exists.
VideoCodecCase ==
    /\ pc = "map"
    /\ STREAM_TYPES_SHORT[stream_pos] = "v"
    /\ stream_type_arg(args.codec, "v") # <<>>
    /\ ~stream_type_bool(args.convertonly, "v")
    /\ ~stream_type_bool(args.nocopy, "v")
    /\ stream_type_arg(args.addfile, "v") = <<>>
    /\ input_streams_counts["v"] >= 1
    /\ LET single == stream_type_arg(args.singlestream, "v")
       IN single # <<>> => ~index_out_of_range(single[1], input_streams_counts["v"])

\* C11: with codec[v] set, convert-only[v] unset and an input with at least
\* one video stream, mapping the video streams succeeds: the error counter is
\* unchanged, the file is not skipped, and every primary video output stream
\* is assigned the encoder of the requested codec.
C11_VideoCodecCompiles ==
    [][VideoCodecCase =>
        /\ err_count' = err_count
        /\ pc' \in {"map", "filters"}
        /\ Cardinality(CodecPos("primary", "v")') = PrimaryCount("v")
        /\ \A i \in CodecPos("primary", "v")' :
             /\ i < Len(cmdline')
             /\ cmdline'[i + 1] = <<video_codec_name(stream_type_arg(args.codec, "v")[1])>>]_vars

\* ------------------------------------------------------------------------
\* C12
\* ------------------------------------------------------------------------

\* The stream order the help text documents: Video -> Audio -> Subtitles ->
\* Data -> Attachments.
DocumentedOrder == <<"v", "a", "s", "d", "t">>
DocumentedRank(t) == CHOOSE i \in 1..Len(DocumentedOrder) : DocumentedOrder[i] = t

\* Positions of every -map selector of the command, and the type each names.
AllMapPos == UNION {MapPos(group, t) : group \in {"primary", "added"}, t \in StreamTypes}
MapType(i) == cmdline[i][3]

\* C12: the mapping directives of a command appear in the order video, audio,
\* subtitle, data, attachment: no directive of a later type precedes one of
\* an earlier type.
C12_MapsInDocumentedOrder ==
    \A i, j \in AllMapPos :
        i < j => DocumentedRank(MapType(i)) <= DocumentedRank(MapType(j))

\* ------------------------------------------------------------------------
\* C13
\* ------------------------------------------------------------------------

\* The directive that strips a container property from the output.
StripDirective(p) == IF p = "c" THEN <<"-map_chapters">> ELSE <<"-map_metadata">>

\* The command holds the strip directive of p, followed by -1.
Strips(p) ==
    \E i \in 1..(Len(cmdline) - 1) :
        /\ cmdsrc[i] = <<"tail", "">>
        /\ cmdline[i] = StripDirective(p)
        /\ cmdline[i + 1] = <<"-1">>

\* C13: a compiled command strips the chapters (the metadata) iff no-copy
\* names chapters (metadata); with no option set it strips neither.
C13_StripIffNoCopy ==
    pc = "run" =>
        \A p \in {"c", "m"} : Strips(p) <=> stream_type_bool(args.nocopy, p)

\* ------------------------------------------------------------------------
\* C14
\* ------------------------------------------------------------------------

\* The codec a pair names is one of the codecs of the pair's own stream type.
CodecOfOwnType(pair) ==
    \/ pair[1] = "v" /\ pair[2] \in VIDEO_CODECS
    \/ pair[1] = "a" /\ pair[2] \in AUDIO_CODECS
    \/ pair[1] = "s" /\ pair[2] \in SUBTITLE_CODECS

\* The (type, codec) pairs of the command line, in the order argparse hands
\* them to the type callback.
CodecPairsGiven == args.codec \o args.addcodec

\* The attribute lasttype after the callback has seen `values`.
RECURSIVE LastTypeAfter(_, _)
LastTypeAfter(lasttype, values) ==
    IF values = <<>> THEN lasttype
    ELSE LastTypeAfter(ValidateStreamCodecArg(lasttype, Head(values)).lasttype, Tail(values))

\* C14: over a sequence of (type, codec) pairs in which every codec is one of
\* its own pair's type, no call of ValidateStreamCodecArg raises, after the
\* last pair the validator again expects a stream type, and the parser does
\* not reject the command line for its codecs.
C14_CodecCheckedAgainstOwnType ==
    (/\ CodecPairsGiven # <<>>
     /\ \A k \in 1..Len(CodecPairsGiven) : CodecOfOwnType(CodecPairsGiven[k])
     /\ ~\E g \in ExclusiveGroups : Cardinality({n \in g : truthy(args, n)}) > 1) =>
        /\ ~CodecArgsRejected(<<>>, Flatten(CodecPairsGiven))
        /\ LastTypeAfter(<<>>, Flatten(CodecPairsGiven)) = <<>>
        /\ ~RejectedByParser

\* ------------------------------------------------------------------------
\* Vocabulary of the geometry properties
\* ------------------------------------------------------------------------

\* The width and height the options request (0: not requested).
ReqW == get_dimensions_from_args(args)[1]
ReqH == get_dimensions_from_args(args)[2]

\* The geometry of the current input has been probed and the filters of its
\* command are resolved: output_width and output_height are the resolved
\* dimensions.
Resolved == pc \in {"finish", "run"} /\ input_dims # NoDims

InW == input_dims.width[1]
InH == input_dims.height[1]

\* The input aspect ratio as a fraction <<num, den>>: the display aspect
\* ratio when the probe gives one, the ratio of width to height otherwise.
InAr ==
    IF input_dims.ar # <<>> /\ input_dims.ar[2] # 0 THEN input_dims.ar ELSE <<InW, InH>>

\* The filter chain of the command (<<>> when it has none) and the resize
\* filters in it.
FilterChain ==
    IF \E i \in 1..Len(cmdline) : cmdsrc[i] = <<"filter", "">> /\ cmdline[i][1] = ","
    THEN Tail(cmdline[CHOOSE i \in 1..Len(cmdline) :
                        cmdsrc[i] = <<"filter", "">> /\ cmdline[i][1] = ","])
    ELSE <<>>
HasFilter(f) == \E k \in 1..Len(FilterChain) : FilterChain[k] = f
ScaleFilter(w, h) == <<"scale={}:{},setsar=1:1", w, h>>
CropFilter(w, h, x, y) == <<"crop={}:{}:{}:{}", w, h, x, y>>
IsResize(f) == f[1] \in {"scale={}:{},setsar=1:1", "crop={}:{}:{}:{}"}

\* The requested width or height equals the input's.
SameAsInput == ReqW = InW \/ ReqH = InH

\* The input is resized by scaling, by cropping.
ScalePath == Resolved /\ ~SameAsInput /\ args.crop = ""
CropPath == Resolved /\ ~SameAsInput /\ args.crop # ""

\* The aspect-derived dimensions, truncated toward zero.
DerivedWidth(h) == (h * InAr[1]) \div InAr[2]
DerivedHeight(w) == (w * InAr[2]) \div InAr[1]

\* The least multiple of p that is at least res.
LeastMultipleAtLeast(res, p) == CHOOSE r \in res..(res + p - 1) : r % p = 0

\* ------------------------------------------------------------------------
\* C15
\* ------------------------------------------------------------------------

\* Scaling with only the height, only the width requested.
HeightOnly == ScalePath /\ ReqW = 0 /\ ReqH # 0
WidthOnly == ScalePath /\ ReqH = 0 /\ ReqW # 0

\* C15 as stated: on the scale path with only one of width and height
\* requested, the other dimension is the truncated aspect-derived value
\* rounded up to a multiple of padding, and the requested dimension is kept.
C15_SuppliedDimensionKept ==
    /\ HeightOnly =>
        /\ output_width = LeastMultipleAtLeast(DerivedWidth(ReqH), args.padding)
        /\ output_height = ReqH
    /\ WidthOnly =>
        /\ output_height = LeastMultipleAtLeast(DerivedHeight(ReqW), args.padding)
        /\ output_width = ReqW

\* C15, amended: the other dimension is the truncated aspect-derived value
\* rounded up to a multiple of padding; the requested dimension is kept
\* unless the derived one falls short of the exact aspect-derived value, and
\* is then derived again from the derived one (truncated, rounded up); the
\* scale filter of the command carries the two resolved dimensions.
C15_DerivedDimensionPadded ==
    /\ HeightOnly =>
        /\ output_width = LeastMultipleAtLeast(DerivedWidth(ReqH), args.padding)
        /\ output_height =
             IF output_width * InAr[2] < ReqH * InAr[1]
             THEN LeastMultipleAtLeast(DerivedHeight(output_width), args.padding)
             ELSE ReqH
        /\ pc = "run" => HasFilter(ScaleFilter(output_width, output_height))
    /\ WidthOnly =>
        /\ output_height = LeastMultipleAtLeast(DerivedHeight(ReqW), args.padding)
        /\ output_width =
             IF output_height * InAr[1] < ReqW * InAr[2]
             THEN LeastMultipleAtLeast(DerivedWidth(output_height), args.padding)
             ELSE ReqW
        /\ pc = "run" => HasFilter(ScaleFilter(output_width, output_height))

\* height = 720 on a 1920x1080 input of 16:9 under padding 4 gives 1280x720.
C15_Witness ==
    /\ pc = "run"
    /\ HeightOnly
    /\ ReqH = 720
    /\ InW = 1920 /\ InH = 1080 /\ InAr = <<16, 9>>
    /\ args.padding = 4
    /\ output_width = 1280 /\ output_height = 720
    /\ HasFilter(ScaleFilter(1280, 720))

\* ------------------------------------------------------------------------
\* C16
\* ------------------------------------------------------------------------

\* Values pad_resolution is applied to: the small ones and the one of the
\* example.
PadInputs == 0..24 \cup {1279, 1280}

\* C16: pad_resolution(res, padding) is the least multiple of padding that is
\* at least res (a multiple of padding in res .. res + padding - 1), and
\* padding its result again changes nothing; the dimension a compiled command
\* derives from the requested width is such a multiple.
C16_PadResolutionLeastMultiple ==
    /\ \A res \in PadInputs : \A p \in Paddings \cup {args.padding} :
         LET r == pad_resolution(res, p)
         IN /\ r % p = 0
            /\ res <= r /\ r < res + p
            /\ pad_resolution(r, p) = r
    /\ WidthOnly =>
         LET r == pad_resolution(DerivedHeight(ReqW), args.padding)
         IN /\ output_height = r
            /\ r % args.padding = 0
            /\ DerivedHeight(ReqW) <= r /\ r < DerivedHeight(ReqW) + args.padding

\* A width of 2275 on a 16:9 input derives 1279, which padding 4 makes 1280.
C16_Witness ==
    /\ pc = "run"
    /\ WidthOnly
    /\ ReqW = 2275
    /\ args.padding = 4
    /\ DerivedHeight(ReqW) = 1279
    /\ output_height = 1280

\* ------------------------------------------------------------------------
\* C17
\* ------------------------------------------------------------------------

\* The anchors that pin the crop window to an edge of the input.
LeftAnchors == {"left", "topleft", "bottomleft"}
RightAnchors == {"right", "topright", "bottomright"}
TopAnchors == {"top", "topleft", "topright"}
BottomAnchors == {"bottom", "bottomleft", "bottomright"}

\* The origin of a w x h window in the input for an anchor: flush with the
\* edges the anchor names, centred (half the slack, truncated) on the others.
AnchorX(anchor, w) ==
    IF anchor \in LeftAnchors THEN 0
    ELSE IF anchor \in RightAnchors THEN InW - w
    ELSE (InW - w) \div 2
AnchorY(anchor, h) ==
    IF anchor \in TopAnchors THEN 0
    ELSE IF anchor \in BottomAnchors THEN InH - h
    ELSE (InH - h) \div 2

\* C17: on the crop path the crop filter carries the resolved window, which
\* lies inside the input, and the origin of the anchor: centred on an axis the
\* anchor does not pin, 0 for left and top, the whole slack for right and
\* bottom.
C17_CropOriginByAnchor ==
    CropPath =>
        /\ output_width <= InW /\ output_height <= InH
        /\ HasFilter(CropFilter(output_width, output_height,
                                AnchorX(args.crop, output_width),
                                AnchorY(args.crop, output_height)))
        /\ \A k \in 1..Len(FilterChain) :
             IsResize(FilterChain[k]) =>
                FilterChain[k] = CropFilter(output_width, output_height,
                                            AnchorX(args.crop, output_width),
                                            AnchorY(args.crop, output_height))

\* A 1920x1080 input cropped to 1280x720 at the centre starts at 320, 180.
C17_Witness ==
    /\ pc = "run"
    /\ CropPath
    /\ args.crop = "center"
    /\ InW = 1920 /\ InH = 1080
    /\ input_streams_counts["v"] >= 1
    /\ HasFilter(CropFilter(1280, 720, 320, 180))

\* ------------------------------------------------------------------------
\* C18
\* ------------------------------------------------------------------------

\* C18: when the requested width equals the probed input width, or the
\* requested height the probed input height, the filter chain holds no scale
\* and no crop filter and the resolved width and height are both 0, whatever
\* the other dimension and the crop anchor.
C18_SameDimensionNoResize ==
    (Resolved /\ SameAsInput) =>
        /\ output_width = 0
        /\ output_height = 0
        /\ \A k \in 1..Len(FilterChain) : ~IsResize(FilterChain[k])

\* The width of the input requested with another height and a crop anchor.
C18_Witness ==
    /\ pc = "run"
    /\ Resolved
    /\ ReqW = InW
    /\ ReqH # 0 /\ ReqH # InH
    /\ args.crop # ""
    /\ output_width = 0 /\ output_height = 0
    /\ FilterChain = <<>>

\* ------------------------------------------------------------------------
\* C19
\* ------------------------------------------------------------------------

\* C19: on the scale path with both width and height requested, the resolved
\* dimensions fit within the requested ones: the resolved width is at most
\* the requested width and the resolved height at most the requested height.
C19_ScaledFitsWithinRequest ==
    (ScalePath /\ ReqW # 0 /\ ReqH # 0) =>
        /\ output_width <= ReqW
        /\ output_height <= ReqH

\* ------------------------------------------------------------------------
\* C20
\* ------------------------------------------------------------------------

\* Two compilations of the history ran against the same probed facts: the
\* same file, stream counts of the primary and the added inputs, codec names
\* and geometry.
SameFacts(c, d) ==
    /\ c.file = d.file
    /\ c.counts = d.counts
    /\ c.added = d.added
    /\ c.names = d.names
    /\ c.dims = d.dims

\* C20: two compilations of one option set against the same probed facts
\* yield the same command token sequence and the same suffix, whatever was
\* processed before them: the files compiled, skipped or run earlier in the
\* batch leave nothing behind that a later compilation reads.
C20_SameFactsSameCommand ==
    \A c, d \in compiled.commands :
        SameFacts(c, d) => (c.cmdline = d.cmdline /\ c.suffix = d.suffix)

\* The second file of a batch compiled against the facts of the first, which
\* hold video and audio streams and a probed geometry, under a suffix ...
C20_Witness ==
    \E c, d \in compiled.commands :
        /\ c.job = 1 /\ d.job = 2
        /\ SameFacts(c, d)
        /\ c.counts["v"] >= 1
        /\ c.cmdline = d.cmdline
        /\ Len(c.cmdline) > 0
        /\ \/ c.dims # NoDims
           \/ c.suffix # <<>>
           \/ c.added["a"] >= 1

\* ------------------------------------------------------------------------
\* C21
\* ------------------------------------------------------------------------

\* C21: whenever the resolver emits a scale or a crop filter, the resolved
\* width and the resolved height are both multiples of the padding.
C21_ResolvedDimensionsPadded ==
    (ScalePath \/ CropPath) =>
        /\ output_width % args.padding = 0
        /\ output_height % args.padding = 0

\* ------------------------------------------------------------------------
\* C23
\* ------------------------------------------------------------------------

\* Positions of the disposition tokens of a group, and the marking that
\* follows each.
DispositionPos(group, t) ==
    {i \in GroupPos(group, t) : cmdline[i][1] = "-disposition:{}:{}"}
Marking(i) == cmdline[i + 1]

\* C23: without adddefault[t] the command holds no disposition token for t;
\* with it, every mapped primary stream of t is marked "none", the first
\* added stream of t is marked "default" and every further added stream
\* "none", so that at most one output stream of t is marked "default".
C23_DispositionMarksFirstAdded ==
    \A t \in StreamTypes :
        Mapped(t) =>
            LET prim == DispositionPos("primary", t)
                added == DispositionPos("added", t)
            IN IF ~stream_type_bool(args.adddefault, t)
               THEN prim = {} /\ added = {}
               ELSE /\ Cardinality(prim) = PrimaryCount(t)
                    /\ \A i \in prim : Marking(i) = <<"none">>
                    /\ Cardinality(added) = AddedCount(t)
                    /\ \A i \in added :
                         Marking(i) = IF \A j \in added : i <= j
                                      THEN <<"default">> ELSE <<"none">>

\* ------------------------------------------------------------------------
\* C22
\* ------------------------------------------------------------------------

\* The segment of the canonical order a directive of the command belongs to
\* (0: the token is a value, not a directive). The first -i is the primary
\* input, a later one a secondary input.
Segment(i) ==
    LET f == cmdline[i][1]
    IN CASE f = "-y" -> 1
         [] f \in {"-r", "-f"} -> 2
         [] f = "-i" -> IF \E j \in 1..(i - 1) : cmdline[j] = <<"-i">> THEN 4 ELSE 3
         [] f = "-stream_loop" -> 4
         [] f = "-copy_unknown" -> 5
         [] f \in {"-map", "-c:{}:{}", "-disposition:{}:{}", "-metadata:s:{}:{}"} -> 6
         [] f = "-vf" -> 7
         [] f = "-af" -> 8
         [] f \in {"-shortest", "-t"} -> 9
         [] f \in {"-map_chapters", "-map_metadata"} -> 10
         [] f \in {"-attach", "-metadata:s:t"} -> 11
         [] OTHER -> 0

\* The directives of the command so far are in the canonical order, after
\* the engine binary; the primary input follows the first -i and a loop flag
\* stands immediately before its -i.
CanonicalOrder ==
    cmdline # <<>> =>
        /\ cmdline[1] = <<args.ffmpegbin>>
        /\ \A i, j \in 2..Len(cmdline) :
             (i < j /\ Segment(i) # 0 /\ Segment(j) # 0) => Segment(i) <= Segment(j)
        /\ \A i \in 2..Len(cmdline) :
             /\ Segment(i) = 3 =>
                  (i < Len(cmdline) /\ cmdline[i + 1] = PathToken(input_files[job_num]))
             /\ cmdline[i] = <<"-stream_loop">> =>
                  (i + 2 <= Len(cmdline) /\ cmdline[i + 1] = <<"-1">>
                   /\ cmdline[i + 2] = <<"-i">>)

\* The compiled command ends with the output path, which occurs nowhere else.
OutputPathLast ==
    pc = "run" =>
        /\ Len(cmdline) >= 2
        /\ cmdline[Len(cmdline)][1] \in {"{}{}{}", "{}/{}{}{}"}
        /\ \A i \in 1..(Len(cmdline) - 1) : cmdline[i][1] \notin {"{}{}{}", "{}/{}{}{}"}
        /\ \A i \in 2..(Len(cmdline) - 1) : Segment(i) # 0 => Segment(i) <= 11

\* While a command is compiled, tokens are only appended.
AppendOnly ==
    (cmdline # <<>> /\ cmdline' # <<>>) =>
        /\ Len(cmdline) <= Len(cmdline')
        /\ SubSeq(cmdline', 1, Len(cmdline)) = cmdline

SuffixCropOptions ==
    /\ args.suffix
    /\ stream_type_arg(args.codec, "v") # <<>>
    /\ args.crop # ""

\* The suffix of the output path token of a command: the parts between the
\* name and the extension.
SuffixOf(token) ==
    IF token[1] = "{}/{}{}{}" THEN token[4] ELSE token[3]

\* A suffix holds the size w x h immediately followed by the crop anchor.
HasSizeThenCrop(suffix, w, h, anchor) ==
    \E k \in 1..(Len(suffix) - 1) :
        /\ suffix[k] = <<"_{}x{}", w, h>>
        /\ suffix[k + 1] = <<"_crop={}", anchor>>

\* C24: with suffix generation, codec[v] and a crop anchor, the file is
\* compiled and not skipped as a compile error: mapping the video streams of
\* an input that has one succeeds, and with a non-zero resolved width or
\* height the last step of the compilation produces the output path, whose
\* suffix holds the resolved WxH followed by the crop anchor, and leaves the
\* error counter alone.
C24_SuffixWithCropCompiles ==
    /\ [][(SuffixCropOptions /\ VideoCodecCase) =>
            (pc' \in {"map", "filters"} /\ err_count' = err_count)]_vars
    /\ [][(SuffixCropOptions /\ pc = "finish"
           /\ (output_width # 0 \/ output_height # 0)) =>
            /\ pc' = "run"
            /\ err_count' = err_count
            /\ HasSizeThenCrop(SuffixOf(cmdline'[Len(cmdline')]),
                               output_width, output_height, args.crop)]_vars

\* ------------------------------------------------------------------------
\* C25
\* ------------------------------------------------------------------------

\* The crop filters of the command.
CropFilters ==
    {FilterChain[k] : k \in {n \in 1..Len(FilterChain) :
                               FilterChain[n][1] = "crop={}:{}:{}:{}"}}

\* C25: every crop filter crop=w:h:x:y of a command lies inside the frame of
\* the probed input: 0 <= x, 0 <= y, x + w <= W and y + h <= H, for every
\* anchor and every request.
C25_CropInsideInput ==
    Resolved =>
        \A f \in CropFilters :
            /\ 0 <= f[4]
            /\ 0 <= f[5]
            /\ f[4] + f[2] <= InW
            /\ f[5] + f[3] <= InH

\* A window requested wider than the input, anchored at an edge: the
\* emitted window is as wide as the input.
C25_Witness ==
    /\ pc = "run"
    /\ CropPath
    /\ ReqW > InW
    /\ args.crop \in RightAnchors
    /\ \E f \in CropFilters : f[2] = InW /\ f[4] = 0

\* ------------------------------------------------------------------------
\* C26
\* ------------------------------------------------------------------------

\* The positions of the loop body at which a file is being compiled.
Compiling == {"map", "filters", "finish"}

\* The command of the current file holds everything from the binary to the
\* output path.
CompiledCompletely ==
    /\ Len(cmdline) > 0
    /\ Len(cmdsrc) = Len(cmdline)
    /\ cmdsrc[1] = <<"head", "">>
    /\ cmdsrc[Len(cmdsrc)] = <<"output", "">>

\* The engine has been invoked at most once for each file that is done, and
\* not yet for the one in hand; the command that waits for the engine is
\* complete; a dry run invokes nothing.
C26_EngineCallsBounded ==
    /\ engine_calls <= (IF pc \in Compiling \cup {"run"} THEN job_num - 1 ELSE job_num)
    /\ err_count <= job_num
    /\ pc = "run" => CompiledCompletely
    /\ args.dryrun => engine_calls = 0

\* An invocation is one step, taken from the complete command of the file in
\* hand, and it ends the work on that file.
C26_InvokedOnceWhenCompiled ==
    engine_calls' # engine_calls =>
        /\ pc = "run"
        /\ CompiledCompletely
        /\ engine_calls' = engine_calls + 1
        /\ pc' \in {"loop", "exited"}
        /\ job_num' = job_num

\* The engine is reached only from the last step of a compilation that hit
\* no error, and a new file is taken up only from the head of the loop.
C26_ReachedOnlyWhenCompiled ==
    /\ (pc # "run" /\ pc' = "run") =>
           (pc = "finish" /\ err_count' = err_count /\ job_num' = job_num)
    /\ job_num' # job_num => (pc = "loop" /\ job_num' = job_num + 1)

\* A file that hits an error before its command is complete (no extension
\* in its name, or any failure while compiling) is counted once and dropped:
\* the loop is back at its head and the engine was not invoked.
C26_ErrorCountedOnceAndDropped ==
    /\ (pc \in Compiling \cup {"loop"} /\ err_count' # err_count) =>
           /\ err_count' = err_count + 1
           /\ pc' = "loop"
           /\ engine_calls' = engine_calls
    /\ (pc \in Compiling /\ pc' \notin Compiling \cup {"run"}) =>
           /\ pc' = "loop"
           /\ err_count' = err_count + 1
    /\ (pc = "loop" /\ pc' = "loop") => err_count' = err_count + 1

\* C26: for every file of a batch the engine is invoked at most once and only
\* after the file's command was compiled completely; a file that hits a
\* per-file error raises the error counter by exactly one and is never
\* handed to the engine; in a dry run the engine is never invoked.
C26_EngineOnlyAfterCompilation ==
    /\ []C26_EngineCallsBounded
    /\ [][/\ C26_InvokedOnceWhenCompiled
          /\ C26_ReachedOnlyWhenCompiled
          /\ C26_ErrorCountedOnceAndDropped]_vars

\* Of two files the first was dropped for its name and the second was
\* compiled and handed to the engine, which succeeded.
C26_Witness ==
    /\ ~args.dryrun
    /\ Len(input_files) = 2
    /\ input_files[1][2] = ""
    /\ job_num = 2
    /\ pc = "loop"
    /\ err_count = 1
    /\ engine_calls = 1
    /\ returncode = <<0>>

====
